---- MODULE Spec2Model ----
(***************************************************************************)
(* PFM-DenseBench static results site: the client-side aggregation engine  *)
(* (js/leaderboard.js, js/performance.js and the earlier page variants)    *)
(* and the page start-up that feeds it.                                    *)
(*                                                                         *)
(* Representation.                                                         *)
(*  - A JavaScript object whose key order matters (Object.entries order)   *)
(*    is a sequence of [key, val] records with distinct keys.              *)
(*  - null / undefined is None == << >>, a present value x is Some(x).     *)
(*  - A Mean_Dice.mean (a float in [0,1]) is an integer 0..MaxMean in      *)
(*    fixed point; a quotient sum / length is the reduced fraction         *)
(*    <<num, den>>, so 3/1 and 6/2 are the same number and 3/2 is 1.5.     *)
(***************************************************************************)
EXTENDS Integers, Sequences, FiniteSets, TLC

VARIABLES
    files,             \* server: per-method JSON file of each method
    statsFile,         \* server: the summary JSON (stats.json)
    statsFetch,        \* fetch of stats.json: "idle", "pending", "ok", "http", "network", "parse"
    methodFetch,       \* leaderboard.js fetch of each method file, same statuses
    loadAllDataPromise, \* the promise returned by loadAllData()
    pc,                \* leaderboard.js init(): "idle", "awaiting", "failed", "rejected", "ready"
    globalData,        \* leaderboard.js globalData: stats, rawData, detailedStats
    calls,             \* number of computeDetailedStats calls so far
    prevDetailedStats, \* result of the previous computeDetailedStats call
    methodTable,       \* rows written by renderMethodTable
    selectedModel,     \* model shown by updateModelInfo
    modelDatasetTable, \* rows written by renderModelDatasetTable
    classified,        \* last getDatasetCategory call: <<dataset, category>>
    perfMethodFetch,   \* performance.js fetch of each method file, same statuses
    perfLoadPromise,   \* performance.js: the promise returned by loadAllPerformanceData()
    perfPc,            \* performance.js initPerformanceTab, same positions as init()
    perfData,          \* performance.js perfData: rawData, processedData
    perfStateMethodFetch, \* performance-tab variant fetch of each method file, same statuses
    perfStateLoadPromise, \* performance-tab variant: the promise returned by loadAllData()
    perfStatePc,       \* performance-tab variant initPerformanceTab, same positions
    perfState,         \* performance-tab variant perfState: rawData, processedData, isLoaded
    mainStatsFetch,    \* main.js fetch of the summary file, same statuses
    mainPc,            \* main.js init(): "idle", "awaiting", "failed", "ready"
    mainRendered,      \* main.js: the three summary tables have been rendered
    failureShown,      \* ids of the elements that show a "Failed to load" message
    tableData,         \* leaderboard.js tableData: the rows built by renderLeaderboardTable
    currentSort,       \* leaderboard.js currentSort: column, direction
    tbody,             \* rows shown in #leaderboard-tbody, None before the first render
    searchInput,       \* value of the leaderboard search box
    tasksTable,        \* dataset keys shown in #tasks-tbody, None before the first render
    activeTask,        \* the task-filter button carrying the class 'active'
    activeMethod,      \* the method-filter button carrying the class 'active'
    foldPc,            \* category fold of computeDetailedStats: "idle", "folding", "averaged", "done"
    foldIndex,         \* the (method, dataset) pair the fold handles next
    foldAcc,           \* modelCategoryRanks while computeDetailedStats runs
    tabCalls,          \* tab variant: the calls of initPerformanceTab, in call order
    fetchCount,        \* tab variant: fetches issued so far for each method file
    processCount,      \* tab variant: calls of processData so far
    listenerCount,     \* tab variant: 'change' listeners on each filter element
    renderCount,       \* tab variant: calls of renderView so far
    clicks,            \* history: the header columns clicked since the page loaded
    currentFilters,    \* performance.js: perfData.currentFilters
    perfCards,         \* performance.js: the dataset cards in the container and
                       \* the metric cards of each that are not display: none
    perfClassified,    \* performance.js: the last getDatasetCategory call and its result
    variantDetailedStats \* earlier variant: what its computeDetailedStats returned

serverVars == <<files, statsFile>>

loadVars == <<statsFetch, methodFetch, loadAllDataPromise>>

leaderboardVars == <<pc, globalData, calls, prevDetailedStats, methodTable,
                     selectedModel, modelDatasetTable>>

perfVars == <<perfMethodFetch, perfLoadPromise, perfPc, perfData>>

perfStateVars == <<perfStateMethodFetch, perfStateLoadPromise, perfStatePc, perfState>>

mainVars == <<mainStatsFetch, mainPc, mainRendered>>

tableVars == <<tableData, currentSort, tbody, searchInput, tasksTable, activeTask,
               activeMethod>>

foldVars == <<foldPc, foldIndex, foldAcc>>

perfViewVars == <<currentFilters, perfCards>>

tabVars == <<tabCalls, fetchCount, processCount, listenerCount, renderCount>>

vars == <<serverVars, loadVars, leaderboardVars, classified, perfVars, perfStateVars,
          mainVars, failureShown, tableVars, foldVars, tabVars, clicks, perfClassified, variantDetailedStats, perfViewVars>>

-----------------------------------------------------------------------------
(* Bounds *)

MaxMean == 1
MaxModels == 3
MaxPairModels == 2
MaxCalls == 2
MaxTabCalls == 2
MaxClicks == 3

-----------------------------------------------------------------------------
(* Values *)

None == << >>
Some(x) == <<x>>

RECURSIVE Gcd(_, _)
Gcd(a, b) == IF b = 0 THEN a ELSE Gcd(b, a % b)

\* the number n / d, d > 0
Frac(n, d) == LET g == Gcd(n, d) IN <<n \div g, d \div g>>

FracLess(a, b) == a[1] * b[2] < b[1] * a[2]

RECURSIVE Sum(_)
Sum(s) == IF s = << >> THEN 0 ELSE s[1] + Sum(Tail(s))

\* arr.reduce((a, b) => a + b, 0) / arr.length
Average(s) == Frac(Sum(s), Len(s))

\* ordered objects
HasKey(o, k) == \E i \in 1..Len(o) : o[i].key = k
Get(o, k) == o[CHOOSE i \in 1..Len(o) : o[i].key = k].val
KeySet(o) == {o[i].key : i \in 1..Len(o)}

-----------------------------------------------------------------------------
(* Configuration *)

Methods == <<"frozen", "lora", "dora", "cnn", "transformer">>

MethodSet == {Methods[i] : i \in 1..Len(Methods)}

methodNames ==
    [frozen |-> "Frozen", lora |-> "LoRA", dora |-> "DoRA",
     cnn |-> "CNN Adapter", transformer |-> "Trans. Adapter"]

datasetCategories ==
    << [key |-> "Nuclear",
        val |-> <<"CoNIC2022", "CoNSeP", "cpm15", "cpm17", "kumar", "Kumar",
                  "Lizard", "NuCLS", "PanNuke", "TNBC">>],
       [key |-> "Gland", val |-> <<"GlaS", "CRAG", "RINGS">>],
       [key |-> "Tissue",
        val |-> <<"BCSS", "CoCaHis", "COSAS24", "EBHI", "WSSS4LUAD",
                  "Janowczyk">>] >>

Categories == <<"Nuclear", "Gland", "Tissue">>

NoDataRank == 999

-----------------------------------------------------------------------------
(* Category Classifier *)

\* String.prototype.toLowerCase on the strings the model classifies
ToLowerCase(x) ==
    CASE x = "GlaS" -> "glas"
      [] x = "GLAS" -> "glas"
      [] x = "Kumar" -> "kumar"
      [] x = "KUMAR" -> "kumar"
      [] x = "Lizard" -> "lizard"
      [] x = "BCSS" -> "bcss"
      [] x = "CRAG" -> "crag"
      [] x = "Nuclear" -> "nuclear"
      [] x = "Gland" -> "gland"
      [] x = "Tissue" -> "tissue"
      [] x = "Other" -> "other"
      [] x = "Misc" -> "misc"
      [] x = "CoNSeP" -> "consep"
      [] x = "CONSEP" -> "consep"
      [] x = "PanNuke" -> "pannuke"
      [] x = "Pannuke" -> "pannuke"
      [] x = "CoNIC2022" -> "conic2022"
      [] x = "TNBC" -> "tnbc"
      [] x = "NuCLS" -> "nucls"
      [] x = "RINGS" -> "rings"
      [] x = "CoCaHis" -> "cocahis"
      [] x = "COSAS24" -> "cosas24"
      [] x = "EBHI" -> "ebhi"
      [] x = "WSSS4LUAD" -> "wsss4luad"
      [] x = "Janowczyk" -> "janowczyk"
      [] x = "M" -> "m"
      [] x = "Gla" -> "gla"
      [] x = " M2 " -> " m2 "
      [] OTHER -> x

\* a membership test that ignores letter case
IncludesIgnoreCase(list, x) ==
    \E i \in 1..Len(list) : ToLowerCase(list[i]) = ToLowerCase(x)

\* datasets.includes(dataset): strict equality against each element
Includes(list, x) == \E i \in 1..Len(list) : list[i] = x

RECURSIVE CategoryFrom(_, _, _)
CategoryFrom(entries, i, dataset) ==
    IF i > Len(entries) THEN "Other"
    ELSE IF Includes(entries[i].val, dataset) THEN entries[i].key
    ELSE CategoryFrom(entries, i + 1, dataset)

getDatasetCategory(dataset) == CategoryFrom(datasetCategories, 1, dataset)

-----------------------------------------------------------------------------
(* Rank Aggregator: the rank step shared by both folds *)

\* an insertion that places x in front of the elements with an equal key:
\* a descending sort that reverses the order of equal elements
InsertDescBeforeEqual(keys, sorted, x) ==
    LET n == Cardinality({i \in 1..Len(sorted) : keys[sorted[i]] > keys[x]})
    IN  SubSeq(sorted, 1, n) \o <<x>> \o SubSeq(sorted, n + 1, Len(sorted))

\* Array.prototype.sort with comparator (a, b) => key(b) - key(a): a stable
\* descending sort.  InsertDesc places x behind every element whose key is
\* greater than or equal to its own; the result is a sequence of indices.
InsertDesc(keys, sorted, x) ==
    LET n == Cardinality({i \in 1..Len(sorted) : keys[sorted[i]] >= keys[x]})
    IN  SubSeq(sorted, 1, n) \o <<x>> \o SubSeq(sorted, n + 1, Len(sorted))

RECURSIVE SortPermDesc(_, _)
SortPermDesc(keys, n) ==
    IF n = 0 THEN << >> ELSE InsertDesc(keys, SortPermDesc(keys, n - 1), n)

SortDesc(s, keys) ==
    LET p == SortPermDesc(keys, Len(s)) IN [i \in 1..Len(s) |-> s[p[i]]]

HasMetric(entry, metric) == metric \in DOMAIN entry.val

\* RankScores with the comparator reversed: (a, b) => a.score - b.score
RankScoresAscending(models) ==
    LET kept  == SelectSeq(models, LAMBDA e : HasMetric(e, "Mean_Dice"))
        items == [i \in 1..Len(kept) |->
                     [model |-> kept[i].key, score |-> kept[i].val["Mean_Dice"].mean]]
    IN  SortDesc(items, [i \in 1..Len(items) |-> 0 - items[i].score])

\* RankScores without the filter: a missing Mean_Dice counts as the score 0
RankScoresZeroForMissing(models) ==
    LET items == [i \in 1..Len(models) |->
                     [model |-> models[i].key,
                      score |-> IF HasMetric(models[i], "Mean_Dice")
                                THEN models[i].val["Mean_Dice"].mean ELSE 0]]
    IN  SortDesc(items, [i \in 1..Len(items) |-> items[i].score])

\* Object.entries(models).filter(m.Mean_Dice).map({model, score}).sort(desc)
RankScores(models) ==
    LET kept  == SelectSeq(models, LAMBDA e : HasMetric(e, "Mean_Dice"))
        items == [i \in 1..Len(kept) |->
                     [model |-> kept[i].key, score |-> kept[i].val["Mean_Dice"].mean]]
    IN  SortDesc(items, [i \in 1..Len(items) |-> items[i].score])

-----------------------------------------------------------------------------
(* Iteration over the raw table *)

RECURSIVE Concat(_)
Concat(ss) == IF ss = << >> THEN << >> ELSE ss[1] \o Concat(Tail(ss))

\* for (method, methodData) of entries(rawData) for (dataset, models) of entries(methodData)
MethodDatasetPairs(rawData) ==
    Concat([i \in 1..Len(rawData) |->
              [j \in 1..Len(rawData[i].val) |->
                  [method |-> rawData[i].key,
                   dataset |-> rawData[i].val[j].key,
                   models |-> rawData[i].val[j].val]]])

-----------------------------------------------------------------------------
(* Category Rank Averager, Cross-Method Performance Averager *)

ModelKeys(model_ranks) == {model_ranks[i].model_key : i \in 1..Len(model_ranks)}

ModelRank(model_ranks, k) ==
    model_ranks[CHOOSE i \in 1..Len(model_ranks) : model_ranks[i].model_key = k]

\* InitModelCategoryRanks over a module-level accumulator: the lists of the
\* previous call are kept
InitModelCategoryRanksKept(model_ranks) ==
    [k \in ModelKeys(model_ranks) |->
        LET old == IF globalData.detailedStats # None
                   THEN globalData.detailedStats[1].modelCategoryRanks[k]
                   ELSE [Nuclear |-> << >>, Gland |-> << >>, Tissue |-> << >>]
        IN  [model |-> ModelRank(model_ranks, k).model_display,
             overall |-> ModelRank(model_ranks, k).avg_rank,
             Nuclear |-> old.Nuclear, Gland |-> old.Gland, Tissue |-> old.Tissue]]

\* the fresh modelCategoryRanks object: one entry per model of model_ranks
InitModelCategoryRanks(model_ranks) ==
    [k \in ModelKeys(model_ranks) |->
        [model |-> ModelRank(model_ranks, k).model_display,
         overall |-> ModelRank(model_ranks, k).avg_rank,
         Nuclear |-> << >>, Gland |-> << >>, Tissue |-> << >>]]

\* PushCategoryRanks that creates the entry of a model it does not find
RECURSIVE PushCategoryRanksCreating(_, _, _, _)
PushCategoryRanksCreating(acc, scores, category, idx) ==
    IF idx > Len(scores) THEN acc
    ELSE LET k == scores[idx].model
             made == IF k \in DOMAIN acc THEN acc
                     ELSE acc @@ (k :> [model |-> k, overall |-> 0, Nuclear |-> << >>,
                                        Gland |-> << >>, Tissue |-> << >>])
         IN  PushCategoryRanksCreating([made EXCEPT ![k][category] = Append(@, idx)],
                                       scores, category, idx + 1)

\* PushCategoryRanks that puts each new rank at the front of the list
RECURSIVE PushCategoryRanksAtFront(_, _, _, _)
PushCategoryRanksAtFront(acc, scores, category, idx) ==
    IF idx > Len(scores) THEN acc
    ELSE LET k == scores[idx].model
             next == IF k \in DOMAIN acc
                     THEN [acc EXCEPT ![k][category] = <<idx>> \o @]
                     ELSE acc
         IN  PushCategoryRanksAtFront(next, scores, category, idx + 1)

\* scores.forEach((item, idx) => if (acc[item.model]) acc[item.model][category].push(idx + 1))
RECURSIVE PushCategoryRanks(_, _, _, _)
PushCategoryRanks(acc, scores, category, idx) ==
    IF idx > Len(scores) THEN acc
    ELSE LET k == scores[idx].model
             next == IF k \in DOMAIN acc
                     THEN [acc EXCEPT ![k][category] = Append(@, idx)]
                     ELSE acc
         IN  PushCategoryRanks(next, scores, category, idx + 1)

\* CategoryFoldStep that files the unlisted datasets under Tissue
CategoryFoldStepOtherAsTissue(acc, pair) ==
    LET category == getDatasetCategory(pair.dataset)
    IN  PushCategoryRanks(acc, RankScores(pair.models),
                          IF category = "Other" THEN "Tissue" ELSE category, 1)

\* one (method, dataset) pair of the category fold
CategoryFoldStep(acc, pair) ==
    LET category == getDatasetCategory(pair.dataset)
    IN  IF category = "Other" THEN acc
        ELSE PushCategoryRanks(acc, RankScores(pair.models), category, 1)

RECURSIVE CategoryFold(_, _, _)
CategoryFold(acc, pairs, i) ==
    IF i > Len(pairs) THEN acc
    ELSE CategoryFold(CategoryFoldStep(acc, pairs[i]), pairs, i + 1)

\* CategoryAvg with 0 for an empty list
CategoryAvgZero(ranks) == IF Len(ranks) > 0 THEN Average(ranks) ELSE Frac(0, 1)

\* ranks.length > 0 ? sum / length : 999
CategoryAvg(ranks) == IF Len(ranks) > 0 THEN Average(ranks) ELSE Frac(NoDataRank, 1)

WithCategoryAvgs(acc) ==
    [k \in DOMAIN acc |->
        [model |-> acc[k].model, overall |-> acc[k].overall,
         Nuclear |-> acc[k].Nuclear, Gland |-> acc[k].Gland, Tissue |-> acc[k].Tissue,
         NuclearAvg |-> CategoryAvg(acc[k].Nuclear),
         GlandAvg |-> CategoryAvg(acc[k].Gland),
         TissueAvg |-> CategoryAvg(acc[k].Tissue)]]

computeModelCategoryRanks(rawData, model_ranks) ==
    WithCategoryAvgs(CategoryFold(InitModelCategoryRanks(model_ranks),
                                  MethodDatasetPairs(rawData), 1))

\* PushMethodScores that pushes 0 for an entry without Mean_Dice
RECURSIVE PushMethodScoresZeroForMissing(_, _, _, _)
PushMethodScoresZeroForMissing(acc, method, models, i) ==
    IF i > Len(models) THEN acc
    ELSE LET k == models[i].key
             made == IF k \in DOMAIN acc THEN acc
                     ELSE acc @@ (k :> [m \in MethodSet |-> << >>])
             next == [made EXCEPT ![k][method] =
                          Append(@, IF HasMetric(models[i], "Mean_Dice")
                                    THEN models[i].val["Mean_Dice"].mean ELSE 0)]
         IN  PushMethodScoresZeroForMissing(next, method, models, i + 1)

\* for (modelKey, metrics) of entries(models): skip without Mean_Dice, create the
\* entry with one empty list per configured method, push the mean
RECURSIVE PushMethodScores(_, _, _, _)
PushMethodScores(acc, method, models, i) ==
    IF i > Len(models) THEN acc
    ELSE IF ~HasMetric(models[i], "Mean_Dice")
         THEN PushMethodScores(acc, method, models, i + 1)
    ELSE LET k == models[i].key
             made == IF k \in DOMAIN acc THEN acc
                     ELSE acc @@ (k :> [m \in MethodSet |-> << >>])
             next == [made EXCEPT ![k][method] =
                          Append(@, models[i].val["Mean_Dice"].mean)]
         IN  PushMethodScores(next, method, models, i + 1)

RECURSIVE MethodFold(_, _, _)
MethodFold(acc, pairs, i) ==
    IF i > Len(pairs) THEN acc
    ELSE MethodFold(PushMethodScores(acc, pairs[i].method, pairs[i].models, 1),
                    pairs, i + 1)

\* MethodAvg with 0 instead of null for an empty list
MethodAvgZero(scores) == IF Len(scores) > 0 THEN Some(Average(scores)) ELSE Some(Frac(0, 1))

\* scores.length > 0 ? sum / length : null
MethodAvg(scores) == IF Len(scores) > 0 THEN Some(Average(scores)) ELSE None

\* modelMethodPerformance[k]: scores[m] is the list under key m, avg[m] the
\* value under key m + 'Avg'
computeModelMethodPerformance(rawData) ==
    LET lists == MethodFold(<< >>, MethodDatasetPairs(rawData), 1)
    IN  [k \in DOMAIN lists |->
            [scores |-> lists[k],
             avg |-> [m \in MethodSet |-> MethodAvg(lists[k][m])]]]

-----------------------------------------------------------------------------
(* Cross-Method Rank Averager *)

\* the Set of dataset names over all methods, in first-insertion order
RECURSIVE Dedup(_)
Dedup(s) ==
    IF s = << >> THEN << >>
    ELSE LET init == Dedup(SubSeq(s, 1, Len(s) - 1))
         IN  IF Includes(init, s[Len(s)]) THEN init ELSE Append(init, s[Len(s)])

AllDatasets(rawData) ==
    LET pairs == MethodDatasetPairs(rawData)
    IN  Dedup([i \in 1..Len(pairs) |-> pairs[i].dataset])

RECURSIVE SortPermDescTiesReversed(_, _)
SortPermDescTiesReversed(keys, n) ==
    IF n = 0 THEN << >>
    ELSE InsertDescBeforeEqual(keys, SortPermDescTiesReversed(keys, n - 1), n)

\* DatasetRankScores with a sort that puts the later of two equal scores first
DatasetRankScoresTiesReversed(models) ==
    LET kept  == SelectSeq(models, LAMBDA e : HasMetric(e, "Mean_Dice"))
        items == [i \in 1..Len(kept) |->
                     [model |-> kept[i].key, score |-> kept[i].val["Mean_Dice"].mean]]
        p == SortPermDescTiesReversed([i \in 1..Len(items) |-> items[i].score],
                                      Len(items))
    IN  [i \in 1..Len(items) |-> items[p[i]]]

\* the rank step as computeModelDatasetRanks writes it:
\* Object.entries(methodData[dataset]).filter(m.Mean_Dice).map(...).sort(desc)
DatasetRankScores(models) ==
    LET kept  == SelectSeq(models, LAMBDA e : HasMetric(e, "Mean_Dice"))
        items == [i \in 1..Len(kept) |->
                     [model |-> kept[i].key, score |-> kept[i].val["Mean_Dice"].mean]]
    IN  SortDesc(items, [i \in 1..Len(items) |-> items[i].score])

\* scores.forEach((item, idx) => (byMethod[item.model] ||= []).push(idx + 1))
RECURSIVE PushMethodRanks(_, _, _)
PushMethodRanks(byMethod, scores, idx) ==
    IF idx > Len(scores) THEN byMethod
    ELSE LET k == scores[idx].model
             made == IF k \in DOMAIN byMethod THEN byMethod
                     ELSE byMethod @@ (k :> << >>)
         IN  PushMethodRanks([made EXCEPT ![k] = Append(@, idx)], scores, idx + 1)

\* modelRanksByMethod of one dataset: for each method holding the dataset,
\* in rawData order, the rank step and the push
RECURSIVE RanksByMethod(_, _, _, _)
RanksByMethod(byMethod, rawData, dataset, i) ==
    IF i > Len(rawData) THEN byMethod
    ELSE IF ~HasKey(rawData[i].val, dataset)
         THEN RanksByMethod(byMethod, rawData, dataset, i + 1)
    ELSE RanksByMethod(
             PushMethodRanks(byMethod, DatasetRankScores(Get(rawData[i].val, dataset)), 1),
             rawData, dataset, i + 1)

\* the fresh modelDatasetRanks object
InitModelDatasetRanks(modelRanks) ==
    [k \in ModelKeys(modelRanks) |->
        [model_display |-> ModelRank(modelRanks, k).model_display,
         datasets |-> << >>]]

Min(s) == CHOOSE x \in {s[i] : i \in 1..Len(s)} : \A i \in 1..Len(s) : x <= s[i]

\* StoreDatasetAvgs that stores 999 for a listed model without a rank
StoreDatasetAvgsWithPlaceholder(acc, byMethod, dataset) ==
    [k \in DOMAIN acc |->
        IF k \in DOMAIN byMethod
        THEN [acc[k] EXCEPT !.datasets = @ @@ (dataset :> Average(byMethod[k]))]
        ELSE [acc[k] EXCEPT !.datasets = @ @@ (dataset :> Frac(NoDataRank, 1))]]

\* StoreDatasetAvgs keeping the best rank across the methods, not the average
StoreDatasetBest(acc, byMethod, dataset) ==
    [k \in DOMAIN acc |->
        IF k \in DOMAIN byMethod
        THEN [acc[k] EXCEPT !.datasets = @ @@ (dataset :> Frac(Min(byMethod[k]), 1))]
        ELSE acc[k]]

\* for (modelKey, ranks) of entries(byMethod): if (acc[modelKey]) datasets[dataset] = avg
StoreDatasetAvgs(acc, byMethod, dataset) ==
    [k \in DOMAIN acc |->
        IF k \in DOMAIN byMethod
        THEN [acc[k] EXCEPT !.datasets = @ @@ (dataset :> Average(byMethod[k]))]
        ELSE acc[k]]

RECURSIVE DatasetFold(_, _, _, _)
DatasetFold(acc, rawData, datasets, i) ==
    IF i > Len(datasets) THEN acc
    ELSE DatasetFold(
             StoreDatasetAvgs(acc, RanksByMethod(<< >>, rawData, datasets[i], 1),
                              datasets[i]),
             rawData, datasets, i + 1)

computeModelDatasetRanks(rawData, modelRanks) ==
    DatasetFold(InitModelDatasetRanks(modelRanks), rawData, AllDatasets(rawData), 1)

computeDetailedStats(rawData, stats) ==
    [modelCategoryRanks |-> computeModelCategoryRanks(rawData, stats.model_ranks),
     modelMethodPerformance |-> computeModelMethodPerformance(rawData),
     modelDatasetRanks |-> computeModelDatasetRanks(rawData, stats.model_ranks)]

-----------------------------------------------------------------------------
(* The earlier leaderboard variant: its computeDetailedStats *)

variantMethods == <<"frozen", "lora", "dora", "cnn", "transformer">>

variantDatasetCategories ==
    << [key |-> "Nuclear",
        val |-> <<"CoNIC2022", "CoNSeP", "cpm15", "cpm17", "kumar", "Kumar",
                  "Lizard", "NuCLS", "PanNuke", "TNBC">>],
       [key |-> "Gland", val |-> <<"GlaS", "CRAG", "RINGS">>],
       [key |-> "Tissue",
        val |-> <<"BCSS", "CoCaHis", "COSAS24", "EBHI", "WSSS4LUAD",
                  "Janowczyk">>] >>

\* the first category whose list includes the dataset, else 'Other'
variantGetDatasetCategory(dataset) ==
    LET hits == SelectSeq(variantDatasetCategories,
                          LAMBDA e : \E i \in 1..Len(e.val) : e.val[i] = dataset)
    IN  IF Len(hits) > 0 THEN hits[1].key ELSE "Other"

\* Object.entries(models).filter(m => m.Mean_Dice).map(...).sort(b.score - a.score)
variantScores(models) ==
    LET kept  == SelectSeq(models, LAMBDA e : "Mean_Dice" \in DOMAIN e.val)
        items == [i \in 1..Len(kept) |->
                     [model |-> kept[i].key, score |-> kept[i].val.Mean_Dice.mean]]
    IN  SortDesc(items, [i \in 1..Len(items) |-> items[i].score])

\* modelCategoryRanks: the object per model of model_ranks, the nested loops
\* over methods and datasets that push idx + 1, then the three averages
variantModelCategoryRanks(rawData, model_ranks) ==
    LET created ==
            [k \in {model_ranks[i].model_key : i \in 1..Len(model_ranks)} |->
                LET model == model_ranks[CHOOSE i \in 1..Len(model_ranks) :
                                            model_ranks[i].model_key = k]
                IN  [model |-> model.model_display, overall |-> model.avg_rank,
                     Nuclear |-> << >>, Gland |-> << >>, Tissue |-> << >>]]
        RECURSIVE forEachScore(_, _, _, _)
        forEachScore(acc, scores, category, idx) ==
            IF idx > Len(scores) THEN acc
            ELSE forEachScore(
                     IF scores[idx].model \in DOMAIN acc
                     THEN [acc EXCEPT ![scores[idx].model][category] = Append(@, idx)]
                     ELSE acc,
                     scores, category, idx + 1)
        RECURSIVE forEachDataset(_, _, _)
        forEachDataset(acc, methodData, j) ==
            IF j > Len(methodData) THEN acc
            ELSE LET category == variantGetDatasetCategory(methodData[j].key)
                 IN  forEachDataset(
                         IF category = "Other" THEN acc
                         ELSE forEachScore(acc, variantScores(methodData[j].val),
                                           category, 1),
                         methodData, j + 1)
        RECURSIVE forEachMethod(_, _)
        forEachMethod(acc, i) ==
            IF i > Len(rawData) THEN acc
            ELSE forEachMethod(forEachDataset(acc, rawData[i].val, 1), i + 1)
        collected == forEachMethod(created, 1)
        avg(ranks) == IF Len(ranks) > 0 THEN Frac(Sum(ranks), Len(ranks))
                      ELSE Frac(999, 1)
    IN  [k \in DOMAIN collected |->
            [model |-> collected[k].model, overall |-> collected[k].overall,
             Nuclear |-> collected[k].Nuclear, Gland |-> collected[k].Gland,
             Tissue |-> collected[k].Tissue,
             NuclearAvg |-> avg(collected[k].Nuclear),
             GlandAvg |-> avg(collected[k].Gland),
             TissueAvg |-> avg(collected[k].Tissue)]]

\* modelMethodPerformance: the nested loops over methods, datasets and models
\* that push Mean_Dice.mean, then the average per method or null
variantModelMethodPerformance(rawData) ==
    LET methods == {variantMethods[i] : i \in 1..Len(variantMethods)}
        RECURSIVE forEachModel(_, _, _, _)
        forEachModel(acc, method, models, n) ==
            IF n > Len(models) THEN acc
            ELSE IF "Mean_Dice" \notin DOMAIN models[n].val
                 THEN forEachModel(acc, method, models, n + 1)
            ELSE LET modelKey == models[n].key
                     made == IF modelKey \in DOMAIN acc THEN acc
                             ELSE acc @@ (modelKey :> [m \in methods |-> << >>])
                 IN  forEachModel(
                         [made EXCEPT ![modelKey][method] =
                              Append(@, models[n].val.Mean_Dice.mean)],
                         method, models, n + 1)
        RECURSIVE forEachDataset(_, _, _, _)
        forEachDataset(acc, method, methodData, j) ==
            IF j > Len(methodData) THEN acc
            ELSE forEachDataset(forEachModel(acc, method, methodData[j].val, 1),
                                method, methodData, j + 1)
        RECURSIVE forEachMethod(_, _)
        forEachMethod(acc, i) ==
            IF i > Len(rawData) THEN acc
            ELSE forEachMethod(forEachDataset(acc, rawData[i].key, rawData[i].val, 1),
                               i + 1)
        collected == forEachMethod(<< >>, 1)
    IN  [k \in DOMAIN collected |->
            [scores |-> collected[k],
             avg |-> [m \in methods |->
                        IF Len(collected[k][m]) > 0
                        THEN Some(Frac(Sum(collected[k][m]), Len(collected[k][m])))
                        ELSE None]]]

\* the earlier variant returns { modelCategoryRanks, modelMethodPerformance }
variantComputeDetailedStats(rawData, stats) ==
    [modelCategoryRanks |-> variantModelCategoryRanks(rawData, stats.model_ranks),
     modelMethodPerformance |-> variantModelMethodPerformance(rawData)]

-----------------------------------------------------------------------------
(* Best-result scans of the leaderboard page *)

\* BestMethodScan with `score >= bestScore`: the last maximum wins
RECURSIVE BestMethodScanLast(_, _, _, _)
BestMethodScanLast(avg, bestMethod, bestScore, i) ==
    IF i > Len(Methods) THEN bestMethod
    ELSE LET score == avg[Methods[i]]
         IN  IF score # None /\ ~FracLess(score[1], bestScore)
             THEN BestMethodScanLast(avg, Some(Methods[i]), score[1], i + 1)
             ELSE BestMethodScanLast(avg, bestMethod, bestScore, i + 1)

\* renderMethodTable: let bestMethod = null, bestScore = -1; for method of
\* CONFIG.methods: if (score !== null && score > bestScore) take it
RECURSIVE BestMethodScan(_, _, _, _)
BestMethodScan(avg, bestMethod, bestScore, i) ==
    IF i > Len(Methods) THEN bestMethod
    ELSE LET score == avg[Methods[i]]
         IN  IF score # None /\ FracLess(bestScore, score[1])
             THEN BestMethodScan(avg, Some(Methods[i]), score[1], i + 1)
             ELSE BestMethodScan(avg, bestMethod, bestScore, i + 1)

\* one row per model of modelRanks that has a modelMethodPerformance entry
renderMethodTable(modelRanks, detailedStats) ==
    LET perf == detailedStats.modelMethodPerformance
        shown == SelectSeq(modelRanks, LAMBDA model : model.model_key \in DOMAIN perf)
    IN  [i \in 1..Len(shown) |->
            [model_key |-> shown[i].model_key,
             bestMethod |-> BestMethodScan(perf[shown[i].model_key].avg,
                                           None, Frac(-1, 1), 1)]]

\* obj[k] = v: in place when the key exists, appended otherwise
Put(o, k, v) ==
    IF HasKey(o, k)
    THEN [i \in 1..Len(o) |-> IF o[i].key = k THEN [key |-> k, val |-> v] ELSE o[i]]
    ELSE Append(o, [key |-> k, val |-> v])

\* renderModelDatasetTable, first loop: the best result of modelKey per dataset
RECURSIVE ModelResults(_, _, _, _)
ModelResults(acc, pairs, modelKey, i) ==
    IF i > Len(pairs) THEN acc
    ELSE LET models == pairs[i].models
             dataset == pairs[i].dataset
         IN  IF HasKey(models, modelKey)
                /\ "Mean_Dice" \in DOMAIN Get(models, modelKey)
             THEN LET score == Get(models, modelKey)["Mean_Dice"].mean
                  IN  IF ~HasKey(acc, dataset) \/ score > Get(acc, dataset).score
                      THEN ModelResults(
                               Put(acc, dataset,
                                   [score |-> score,
                                    method |-> methodNames[pairs[i].method],
                                    category |-> getDatasetCategory(dataset)]),
                               pairs, modelKey, i + 1)
                      ELSE ModelResults(acc, pairs, modelKey, i + 1)
             ELSE ModelResults(acc, pairs, modelKey, i + 1)

\* second loop: rank = 1 + number of observations of the dataset above the score
BetterCount(pairs, dataset, score) ==
    Sum([i \in 1..Len(pairs) |->
            IF pairs[i].dataset = dataset
            THEN Len(SelectSeq(pairs[i].models,
                               LAMBDA e : HasMetric(e, "Mean_Dice")
                                          /\ e.val["Mean_Dice"].mean > score))
            ELSE 0])

\* the rows, sorted by score descending
renderModelDatasetTable(modelKey, rawData) ==
    LET pairs == MethodDatasetPairs(rawData)
        results == ModelResults(<< >>, pairs, modelKey, 1)
        rows == [i \in 1..Len(results) |->
                    [dataset |-> results[i].key,
                     score |-> results[i].val.score,
                     method |-> results[i].val.method,
                     category |-> results[i].val.category,
                     rank |-> 1 + BetterCount(pairs, results[i].key,
                                              results[i].val.score)]]
    IN  SortDesc(rows, [i \in 1..Len(rows) |-> rows[i].score])

-----------------------------------------------------------------------------
(* Performance module (js/performance.js) and its tab variant *)

PERF_CONFIG_metrics ==
    <<"Mean_Dice", "mIoU", "Pixel_Accuracy", "Mean_Accuracy",
      "Frequency_Weighted_IoU", "Mean_Precision", "Mean_Recall", "Mean_F1">>

MetricKeySet == {PERF_CONFIG_metrics[i] : i \in 1..Len(PERF_CONFIG_metrics)}

PERF_CONFIG_datasetCategories ==
    << [key |-> "Nuclear",
        val |-> <<"CoNIC2022", "CoNSeP", "cpm15", "cpm17", "kumar", "Lizard",
                  "NuCLS", "PanNuke", "TNBC">>],
       [key |-> "Gland", val |-> <<"GlaS", "CRAG", "RINGS">>],
       [key |-> "Tissue",
        val |-> <<"BCSS", "CoCaHis", "COSAS24", "EBHI", "WSSS4LUAD",
                  "Janowczyk">>] >>

perfGetDatasetCategory(dataset) ==
    CategoryFrom(PERF_CONFIG_datasetCategories, 1, dataset)

\* the observations of one dataset and metric: methods in rawData order, then
\* the models of the dataset in their order, keeping those that have the metric
MetricItemsOf(method, models, metricKey) ==
    LET kept == SelectSeq(models, LAMBDA e : HasMetric(e, metricKey))
    IN  [i \in 1..Len(kept) |->
            [model |-> kept[i].key, method |-> method,
             mean |-> kept[i].val[metricKey].mean]]

CollectMetricData(rawData, dataset, metricKey) ==
    Concat([i \in 1..Len(rawData) |->
              IF HasKey(rawData[i].val, dataset)
              THEN MetricItemsOf(rawData[i].key, Get(rawData[i].val, dataset), metricKey)
              ELSE << >>])

\* SortByMeanDesc with the comparator reversed: (a, b) => a.mean - b.mean
SortByMeanAsc(items) == SortDesc(items, [i \in 1..Len(items) |-> 0 - items[i].mean])

\* metricData.sort((a, b) => b.mean - a.mean)
SortByMeanDesc(items) == SortDesc(items, [i \in 1..Len(items) |-> items[i].mean])

\* performance.js: best = metricData.length > 0 ? metricData[0] : null
processPerformanceData(rawData) ==
    LET all == AllDatasets(rawData)
    IN  [d \in 1..Len(all) |->
            [key |-> all[d],
             val |-> [category |-> perfGetDatasetCategory(all[d]),
                      metrics |->
                          [k \in MetricKeySet |->
                              LET metricData ==
                                      SortByMeanDesc(CollectMetricData(rawData, all[d], k))
                              IN  [data |-> metricData,
                                   best |-> IF Len(metricData) > 0
                                            THEN Some(metricData[1]) ELSE None]]]]]

\* tab variant: best = items[0] || null
processData(rawData) ==
    LET all == AllDatasets(rawData)
    IN  [d \in 1..Len(all) |->
            [key |-> all[d],
             val |-> [category |-> perfGetDatasetCategory(all[d]),
                      metrics |->
                          [k \in MetricKeySet |->
                              LET items ==
                                      SortByMeanDesc(CollectMetricData(rawData, all[d], k))
                              IN  [data |-> items,
                                   best |-> IF items # << >>
                                            THEN Some(items[1]) ELSE None]]]]]

-----------------------------------------------------------------------------
(* Inputs: per-method files and the summary file *)

ModelPool == {"m1", "m2", "m3", "m5"}

PairModelPool == {"m1", "m2", "m3"}

Means == 0..MaxMean

\* metrics objects that carry a Mean_Dice observation (and an mIoU one that
\* orders the models the other way round)
DiceMetrics ==
    {[Mean_Dice |-> [mean |-> v], mIoU |-> [mean |-> MaxMean - v]] : v \in Means}

\* the metrics object of one model: without Mean_Dice, or with a Mean_Dice mean
MetricsObjects == {[mIoU |-> [mean |-> MaxMean]]} \cup DiceMetrics

ModelSeqs(pool, n) ==
    {s \in [1..n -> pool] : \A i, j \in 1..n : i # j => s[i] # s[j]}

\* the models objects of one (method, dataset) pair: up to maxModels entries
ModelsObjects(pool, maxModels, metrics) ==
    UNION {{[i \in 1..n |-> [key |-> s[i], val |-> v[i]]] :
               s \in ModelSeqs(pool, n), v \in [1..n -> metrics]} :
           n \in 0..maxModels}

\* which methods loaded and which datasets each file lists, in file order
SingleShapes ==
    { << >>,
      << [key |-> "frozen", datasets |-> << >>] >>,
      << [key |-> "frozen", datasets |-> <<"kumar">>] >>,
      << [key |-> "cnn", datasets |-> <<"Misc">>] >> }

PairShapes ==
    { << [key |-> "lora", datasets |-> <<"GlaS", "CRAG">>] >>,
      << [key |-> "frozen", datasets |-> <<"GlaS">>],
         [key |-> "lora", datasets |-> <<"GlaS">>] >>,
      << [key |-> "dora", datasets |-> <<"BCSS">>],
         [key |-> "transformer", datasets |-> <<"Misc">>] >> }

CellCount(shape) == Sum([i \in 1..Len(shape) |-> Len(shape[i].datasets)])

CellOffset(shape, i) == Sum([h \in 1..(i - 1) |-> Len(shape[h].datasets)])

TablesOf(shape, cells) ==
    {[i \in 1..Len(shape) |->
         [key |-> shape[i].key,
          val |-> [j \in 1..Len(shape[i].datasets) |->
                     [key |-> shape[i].datasets[j],
                      val |-> c[CellOffset(shape, i) + j]]]]] :
     c \in [1..CellCount(shape) -> cells]}

\* tables of one (method, dataset) pair with up to MaxModels models, and
\* tables of two pairs with up to MaxPairModels models that all have Mean_Dice
RawTables ==
    UNION ({TablesOf(shape, ModelsObjects(ModelPool, MaxModels, MetricsObjects)) :
               shape \in SingleShapes}
           \cup
           {TablesOf(shape, ModelsObjects(PairModelPool, MaxPairModels, DiceMetrics)) :
               shape \in PairShapes})

ModelRankRecord(k, p) ==
    [model_key |-> k, model_display |-> k, avg_rank |-> p, position |-> p]

\* m3 is in the files but not in model_ranks, m4 in model_ranks but in no file
SotaEntry(dataset, mDice, category) ==
    [key |-> dataset, val |-> [mDice |-> mDice, category |-> category]]

\* dataset_sota lists BCSS under the key 'bcss' and holds an unlisted dataset
StatsChoices ==
    { [model_ranks |-> <<ModelRankRecord("m1", 1), ModelRankRecord("m2", 2),
                         ModelRankRecord("m4", 3)>>,
       dataset_sota |-> <<SotaEntry("kumar", 7, "Nuclear"), SotaEntry("GlaS", 9, "Gland"),
                          SotaEntry("bcss", 9, "Tissue"), SotaEntry("Misc", 8, "Other")>>] }

-----------------------------------------------------------------------------
(* Leaderboard page: state after both loads have settled *)

EmptyGlobalData ==
    [stats |-> None, rawData |-> << >>, detailedStats |-> None, datasets |-> None,
     totalModels |-> None]

\* let currentSort = { column: 'rank', direction: 'asc' }
InitialSort == [column |-> "rank", direction |-> "asc"]

EmptyPerfData == [rawData |-> << >>, processedData |-> << >>]

InitialFilters == [search |-> "", category |-> "all", metric |-> "all"]

EmptyPerfState == [rawData |-> None, processedData |-> None, isLoaded |-> FALSE]

-----------------------------------------------------------------------------
(* Leaderboard table: rows, sort and search *)

allDatasets ==
    <<"CoNIC2022", "PanNuke", "cpm15", "cpm17", "kumar", "CoNSeP", "TNBC", "NuCLS",
      "Lizard", "GlaS", "CRAG", "RINGS", "BCSS", "CoCaHis", "COSAS24", "EBHI",
      "WSSS4LUAD", "Janowczyk">>

\* CONFIG.allDatasets.filter(d => existing.has(d) || existing.has(d.toLowerCase()))
getUniqueDatasets(datasetSota) ==
    SelectSeq(allDatasets,
              LAMBDA d : HasKey(datasetSota, d) \/ HasKey(datasetSota, ToLowerCase(d)))

\* datasetRanks[dataset] || datasetRanks[dataset.toLowerCase()] || null
DatasetCell(datasetRanks, dataset) ==
    IF dataset \in DOMAIN datasetRanks THEN Some(datasetRanks[dataset])
    ELSE IF ToLowerCase(dataset) \in DOMAIN datasetRanks
         THEN Some(datasetRanks[ToLowerCase(dataset)])
    ELSE None

\* tableData = modelRanks.map((model, idx) => row); row[dataset] is cells[dataset]
BuildTableData(modelRanks, detailedStats, datasets) ==
    [idx \in 1..Len(modelRanks) |->
        LET model == modelRanks[idx]
            datasetRanks ==
                IF model.model_key \in DOMAIN detailedStats.modelDatasetRanks
                THEN detailedStats.modelDatasetRanks[model.model_key].datasets
                ELSE << >>
        IN  [rank |-> model.position,
             model |-> model.model_display,
             model_key |-> model.model_key,
             overall |-> model.avg_rank,
             isTop3 |-> idx - 1 < 3,
             cells |-> [d \in {datasets[i] : i \in 1..Len(datasets)} |->
                          DatasetCell(datasetRanks, d)]]]

\* data-type of the header cell with data-sort = column
HeaderType(column) == IF column = "model" THEN "string" ELSE "number"

\* a[column] of a numeric column with null or undefined replaced by 0
NumericValueNullAsZero(row, column) ==
    CASE column = "rank" -> Some(Frac(row.rank, 1))
      [] column = "overall" -> Some(Frac(row.overall, 1))
      [] column \in DOMAIN row.cells ->
           IF row.cells[column] = None THEN Some(Frac(0, 1)) ELSE row.cells[column]
      [] OTHER -> Some(Frac(0, 1))

\* a[column] of a numeric column, null or undefined replaced by Infinity (None)
NumericValue(row, column) ==
    CASE column = "rank" -> Some(Frac(row.rank, 1))
      [] column = "overall" -> Some(Frac(row.overall, 1))
      [] column \in DOMAIN row.cells -> row.cells[column]
      [] OTHER -> None

\* sign of valA - valB, where Infinity - Infinity is NaN and counts as 0
NumericCompare(valA, valB) ==
    IF valA = None /\ valB = None THEN 0
    ELSE IF valA = None THEN 1
    ELSE IF valB = None THEN -1
    ELSE IF FracLess(valA[1], valB[1]) THEN -1
    ELSE IF FracLess(valB[1], valA[1]) THEN 1
    ELSE 0

\* the lower-cased model names in collation order
Collation == <<"m1", "m2", "m3", "m4", "m5">>

CollationIndex(x) == CHOOSE i \in 1..Len(Collation) : Collation[i] = x

\* sign of a.localeCompare(b)
LocaleCompare(a, b) ==
    IF CollationIndex(a) < CollationIndex(b) THEN -1
    ELSE IF CollationIndex(a) > CollationIndex(b) THEN 1
    ELSE 0

\* the comparator of handleSort
SortCompare(a, b, column, type, direction) ==
    IF type = "string"
    THEN IF direction = "asc"
         THEN LocaleCompare(ToLowerCase(a[column]), ToLowerCase(b[column]))
         ELSE LocaleCompare(ToLowerCase(b[column]), ToLowerCase(a[column]))
    ELSE IF direction = "asc"
         THEN NumericCompare(NumericValue(a, column), NumericValue(b, column))
         ELSE NumericCompare(NumericValue(b, column), NumericValue(a, column))

\* Array.prototype.sort: stable, x goes behind every element not after it
InsertRow(sorted, x, column, type, direction) ==
    LET n == Cardinality({i \in 1..Len(sorted) :
                             SortCompare(sorted[i], x, column, type, direction) <= 0})
    IN  SubSeq(sorted, 1, n) \o <<x>> \o SubSeq(sorted, n + 1, Len(sorted))

RECURSIVE SortRows(_, _, _, _, _)
SortRows(rows, n, column, type, direction) ==
    IF n = 0 THEN << >>
    ELSE InsertRow(SortRows(rows, n - 1, column, type, direction), rows[n],
                   column, type, direction)

\* the characters of the strings typed into the search box and of the names
Chars(x) ==
    CASE x = "" -> << >>
      [] x = " " -> <<" ">>
      [] x = "m" -> <<"m">>
      [] x = "zz" -> <<"z", "z">>
      [] x = " m2 " -> <<" ", "m", "2", " ">>
      [] x = "m1" -> <<"m", "1">>
      [] x = "m2" -> <<"m", "2">>
      [] x = "m3" -> <<"m", "3">>
      [] x = "m4" -> <<"m", "4">>
      [] x = "m5" -> <<"m", "5">>
      [] x = "gla" -> <<"g", "l", "a">>
      [] x = "glas" -> <<"g", "l", "a", "s">>
      [] x = "kumar" -> <<"k", "u", "m", "a", "r">>
      [] x = "misc" -> <<"m", "i", "s", "c">>
      [] x = "bcss" -> <<"b", "c", "s", "s">>

\* String.prototype.trim
Trim(x) ==
    CASE x = " m2 " -> "m2"
      [] x = " " -> ""
      [] OTHER -> x

\* String.prototype.includes
StringIncludes(text, query) ==
    LET t == Chars(text)
        q == Chars(query)
    IN  \E i \in 0..(Len(t) - Len(q)) : SubSeq(t, i + 1, i + Len(q)) = q

\* tableData.filter(row => model.includes(query) || model_key.includes(query))
FilterRows(rows, query) ==
    SelectSeq(rows, LAMBDA row : \/ StringIncludes(ToLowerCase(row.model), query)
                                 \/ StringIncludes(ToLowerCase(row.model_key), query))

\* PERF_CONFIG.datasetDisplayNames[datasetKey] || datasetKey
getDatasetDisplayName(datasetKey) ==
    CASE datasetKey = "cpm15" -> "CPM15"
      [] datasetKey = "cpm17" -> "CPM17"
      [] datasetKey = "kumar" -> "Kumar"
      [] OTHER -> datasetKey

\* (catOrder[category] || 99): the 0 of Nuclear is falsy
CatOrder(category) ==
    CASE category = "Gland" -> 1
      [] category = "Tissue" -> 2
      [] OTHER -> 99

\* the display names of the datasets in collation order
DatasetCollation ==
    <<"BCSS", "CoCaHis", "CoNIC2022", "CoNSeP", "COSAS24", "CPM15", "CPM17", "CRAG",
      "EBHI", "GlaS", "Janowczyk", "Kumar", "Lizard", "Misc", "NuCLS", "PanNuke",
      "RINGS", "TNBC", "WSSS4LUAD">>

DatasetCollationIndex(x) ==
    CHOOSE i \in 1..Len(DatasetCollation) : DatasetCollation[i] = x

\* the comparator of renderAllDatasetCards: category order, then name
CardCompare(a, b) ==
    IF CatOrder(a.val.category) # CatOrder(b.val.category)
    THEN CatOrder(a.val.category) - CatOrder(b.val.category)
    ELSE DatasetCollationIndex(getDatasetDisplayName(a.key))
             - DatasetCollationIndex(getDatasetDisplayName(b.key))

InsertCard(sorted, x) ==
    LET n == Cardinality({i \in 1..Len(sorted) : CardCompare(sorted[i], x) <= 0})
    IN  SubSeq(sorted, 1, n) \o <<x>> \o SubSeq(sorted, n + 1, Len(sorted))

RECURSIVE SortCards(_, _)
SortCards(entries, n) ==
    IF n = 0 THEN << >> ELSE InsertCard(SortCards(entries, n - 1), entries[n])

\* the dataset cards renderAllDatasetCards writes into the container, each
\* with one metric card per PERF_CONFIG.metrics entry and none of them hidden
renderAllDatasetCards(processedData, filters) ==
    LET byCategory ==
            IF filters.category # "all"
            THEN SelectSeq(processedData, LAMBDA e : e.val.category = filters.category)
            ELSE processedData
        searchLower == ToLowerCase(filters.search)
        bySearch ==
            IF filters.search # ""
            THEN SelectSeq(byCategory,
                    LAMBDA e :
                        \/ StringIncludes(ToLowerCase(getDatasetDisplayName(e.key)),
                                          searchLower)
                        \/ StringIncludes(ToLowerCase(e.key), searchLower))
            ELSE byCategory
        datasets == SortCards(bySearch, Len(bySearch))
    IN  [i \in 1..Len(datasets) |-> [dataset |-> datasets[i].key, shown |-> MetricKeySet]]

\* applyMetricFilter: display '' or 'none' on every .perf-metric-card
applyMetricFilter(cards, metricKey) ==
    [i \in 1..Len(cards) |->
        [cards[i] EXCEPT !.shown = IF metricKey = "all" THEN MetricKeySet
                                   ELSE MetricKeySet \cap {metricKey}]]

\* categoryMap of renderTasksTable; undefined is None
CategoryMap(task) ==
    CASE task = "nuclear" -> Some("Nuclear")
      [] task = "gland" -> Some("Gland")
      [] task = "tissue" -> Some("Tissue")
      [] OTHER -> None

\* the dataset keys of the rows of #tasks-tbody, sorted by mDice descending
renderTasksTable(datasetSota, task) ==
    LET sorted == SortDesc(datasetSota,
                           [i \in 1..Len(datasetSota) |-> datasetSota[i].val.mDice])
        shown == IF task = "all" THEN sorted
                 ELSE SelectSeq(sorted,
                                LAMBDA e : Some(e.val.category) = CategoryMap(task))
    IN  [i \in 1..Len(shown) |-> shown[i].key]

-----------------------------------------------------------------------------
(* Data loading *)

Pending == [state |-> "pending", value |-> None]

Fulfilled(v) == [state |-> "fulfilled", value |-> v]

Rejected == [state |-> "rejected", value |-> None]

Outcomes == {"ok", "http", "network", "parse"}

\* Promise.all: rejected as soon as one promise is rejected, fulfilled with
\* the values once every promise is fulfilled
PromiseAll(ps) ==
    IF \E i \in 1..Len(ps) : ps[i].state = "rejected" THEN Rejected
    ELSE IF \A i \in 1..Len(ps) : ps[i].state = "fulfilled"
         THEN Fulfilled(Some([i \in 1..Len(ps) |-> ps[i].value]))
    ELSE Pending

\* a loadStats that answers a failed fetch with an empty summary
loadStatsEmptyOnFailure(status, file) ==
    IF status \in {"idle", "pending"} THEN Pending
    ELSE IF status = "ok" THEN Fulfilled(file)
    ELSE Fulfilled(Some([model_ranks |-> << >>, dataset_sota |-> << >>]))

\* try { fetch; !ok -> throw; return await json() } catch { return null }
loadStats(status, file) ==
    IF status \in {"idle", "pending"} THEN Pending
    ELSE IF status = "ok" THEN Fulfilled(file)
    ELSE Fulfilled(None)

\* main.js loadStats: try { fetch; !ok -> throw; json() } catch { return null }
mainLoadStats(status, file) ==
    IF status \in {"idle", "pending"} THEN Pending
    ELSE IF status = "ok" THEN Fulfilled(file)
    ELSE Fulfilled(None)

\* loadMethodData without the catch: a failed fetch rejects
loadMethodDataRethrow(status, file) ==
    IF status \in {"idle", "pending"} THEN Pending
    ELSE IF status = "ok" THEN Fulfilled(file)
    ELSE Rejected

loadMethodData(status, file) ==
    IF status \in {"idle", "pending"} THEN Pending
    ELSE IF status = "ok" THEN Fulfilled(file)
    ELSE Fulfilled(None)

\* for ([method, data] of results) if (data) rawData[method] = data
BuildRawData(results) ==
    LET kept == SelectSeq([i \in 1..Len(Methods) |-> i], LAMBDA i : results[i] # None)
    IN  [n \in 1..Len(kept) |-> [key |-> Methods[kept[n]], val |-> results[kept[n]][1]]]

\* a loadAllData that resumes once the first per-method promise has settled
loadAllDataFirstSettled(fetches, served) ==
    LET ps == [i \in 1..Len(Methods) |->
                  loadMethodData(fetches[Methods[i]], served[Methods[i]])]
    IN  IF \E i \in 1..Len(ps) : ps[i].state = "rejected" THEN Rejected
        ELSE IF \E i \in 1..Len(ps) : ps[i].state = "fulfilled"
             THEN Fulfilled(Some(BuildRawData([i \in 1..Len(ps) |-> ps[i].value])))
        ELSE Pending

loadAllData(fetches, served) ==
    LET all == PromiseAll([i \in 1..Len(Methods) |->
                              loadMethodData(fetches[Methods[i]], served[Methods[i]])])
    IN  IF all.state = "fulfilled" THEN Fulfilled(Some(BuildRawData(all.value[1])))
        ELSE all

perfLoadMethodData(status, file) ==
    IF status \in {"idle", "pending"} THEN Pending
    ELSE IF status = "ok" THEN Fulfilled(file)
    ELSE Fulfilled(None)

loadAllPerformanceData(fetches, served) ==
    LET all == PromiseAll([i \in 1..Len(Methods) |->
                              perfLoadMethodData(fetches[Methods[i]], served[Methods[i]])])
    IN  IF all.state = "fulfilled" THEN Fulfilled(Some(BuildRawData(all.value[1])))
        ELSE all

\* tab variant, the async callback of loadAllData: `await fetch` rejects on a
\* network error, `res.ok ? await res.json() : null` rejects on a bad body
perfStateLoadMethod(status, file) ==
    IF status \in {"idle", "pending"} THEN Pending
    ELSE IF status = "ok" THEN Fulfilled(file)
    ELSE IF status = "http" THEN Fulfilled(None)
    ELSE Rejected

\* tab variant loadAllData: try { await Promise.all } catch { return null }
perfStateLoadAllData(fetches, served) ==
    LET all == PromiseAll([i \in 1..Len(Methods) |->
                              perfStateLoadMethod(fetches[Methods[i]], served[Methods[i]])])
    IN  IF all.state = "fulfilled" THEN Fulfilled(Some(BuildRawData(all.value[1])))
        ELSE IF all.state = "rejected" THEN Fulfilled(None)
        ELSE Pending

\* the page with stats.json loaded and rawData holding exactly the table
LoadedState(table, st) ==
        /\ files = [m \in MethodSet |->
                       IF HasKey(table, m) THEN Some(Get(table, m)) ELSE None]
        /\ statsFile = Some(st)
        /\ statsFetch = "ok"
        /\ methodFetch = [m \in MethodSet |-> IF HasKey(table, m) THEN "ok" ELSE "http"]
        /\ loadAllDataPromise = Fulfilled(Some(table))
        /\ pc = "awaiting"
        /\ globalData = EmptyGlobalData
        /\ calls = 0
        /\ prevDetailedStats = None
        /\ methodTable = None
        /\ selectedModel = None
        /\ modelDatasetTable = None
        /\ classified = None
        /\ perfMethodFetch = [m \in MethodSet |-> IF HasKey(table, m) THEN "ok" ELSE "http"]
        /\ perfLoadPromise = Fulfilled(Some(table))
        /\ perfPc = "awaiting"
        /\ perfData = EmptyPerfData
        /\ perfStateMethodFetch =
               [m \in MethodSet |-> IF HasKey(table, m) THEN "ok" ELSE "http"]
        /\ perfStateLoadPromise = Fulfilled(Some(table))
        /\ perfStatePc = "awaiting"
        /\ perfState = EmptyPerfState
        /\ mainStatsFetch = "idle"
        /\ mainPc = "idle"
        /\ mainRendered = FALSE
        /\ failureShown = {}
        /\ tableData = << >>
        /\ currentSort = InitialSort
        /\ tbody = None
        /\ searchInput = ""
        /\ tasksTable = None
        /\ activeTask = "all"
        /\ activeMethod = "all"
        /\ foldPc = "idle"
        /\ foldIndex = 0
        /\ foldAcc = << >>
        /\ tabCalls = << >>
        /\ fetchCount = [m \in MethodSet |-> 0]
        /\ processCount = 0
        /\ listenerCount = 0
        /\ renderCount = 0
        /\ clicks = << >>
        /\ currentFilters = InitialFilters
        /\ perfCards = None
        /\ perfClassified = None
        /\ variantDetailedStats = None

WithDice(v) == [Mean_Dice |-> [mean |-> v], mIoU |-> [mean |-> MaxMean - v]]

ModelEntry(k, metrics) == [key |-> k, val |-> metrics]

DatasetEntry(name, models) == [key |-> name, val |-> models]

\* the method files the server holds: a full set with an empty file, and a
\* set in which every method has the same one-dataset file
LoadFileSets ==
    { [m \in MethodSet |->
          CASE m = "frozen" ->
                 <<DatasetEntry("GlaS", <<ModelEntry("m1", WithDice(MaxMean)),
                                          ModelEntry("m2", WithDice(0))>>)>>
            [] m = "lora" ->
                 <<DatasetEntry("GlaS", <<ModelEntry("m1", WithDice(0)),
                                          ModelEntry("m2", WithDice(MaxMean))>>)>>
            [] m = "dora" -> << >>
            [] m = "cnn" ->
                 <<DatasetEntry("Misc", <<ModelEntry("m3", WithDice(MaxMean))>>)>>
            [] OTHER ->
                 <<DatasetEntry("kumar", <<ModelEntry("m1", [mIoU |-> [mean |-> MaxMean]]),
                                           ModelEntry("m2", WithDice(MaxMean))>>)>>],
      [m \in MethodSet |->
          <<DatasetEntry("BCSS", <<ModelEntry("m2", WithDice(MaxMean))>>)>>] }

Pages == {"main", "leaderboard", "performance", "performance-tab"}

\* a page at DOMContentLoaded: every fetch of the running script is in flight
PageInit(served, st, page) ==
        /\ files = [m \in MethodSet |-> Some(served[m])]
        /\ statsFile = Some(st)
        /\ statsFetch = IF page = "leaderboard" THEN "pending" ELSE "idle"
        /\ methodFetch =
               [m \in MethodSet |-> IF page = "leaderboard" THEN "pending" ELSE "idle"]
        /\ loadAllDataPromise = Pending
        /\ pc = IF page = "leaderboard" THEN "awaiting" ELSE "idle"
        /\ globalData = EmptyGlobalData
        /\ calls = 0
        /\ prevDetailedStats = None
        /\ methodTable = None
        /\ selectedModel = None
        /\ modelDatasetTable = None
        /\ classified = None
        /\ perfMethodFetch =
               [m \in MethodSet |-> IF page = "performance" THEN "pending" ELSE "idle"]
        /\ perfLoadPromise = Pending
        /\ perfPc = IF page = "performance" THEN "awaiting" ELSE "idle"
        /\ perfData = EmptyPerfData
        /\ perfStateMethodFetch =
               [m \in MethodSet |-> IF page = "performance-tab" THEN "pending" ELSE "idle"]
        /\ perfStateLoadPromise = Pending
        /\ perfStatePc = IF page = "performance-tab" THEN "awaiting" ELSE "idle"
        /\ perfState = EmptyPerfState
        /\ mainStatsFetch = IF page = "main" THEN "pending" ELSE "idle"
        /\ mainPc = IF page = "main" THEN "awaiting" ELSE "idle"
        /\ mainRendered = FALSE
        /\ failureShown = {}
        /\ tableData = << >>
        /\ currentSort = InitialSort
        /\ tbody = None
        /\ searchInput = ""
        /\ tasksTable = None
        /\ activeTask = "all"
        /\ activeMethod = "all"
        /\ foldPc = "idle"
        /\ foldIndex = 0
        /\ foldAcc = << >>
        /\ tabCalls = << >>
        /\ fetchCount = [m \in MethodSet |-> 0]
        /\ processCount = 0
        /\ listenerCount = 0
        /\ renderCount = 0
        /\ clicks = << >>
        /\ currentFilters = InitialFilters
        /\ perfCards = None
        /\ perfClassified = None
        /\ variantDetailedStats = None

LoadInit ==
    \E served \in LoadFileSets, st \in StatsChoices, page \in Pages :
        PageInit(served, st, page)

\* the methods whose files loaded, for the sessions of the leaderboard table
LoadedMethodSets == {MethodSet, {"transformer"}, {"frozen", "lora"}}

TableRawTables ==
    {LET kept == SelectSeq(Methods, LAMBDA m : m \in loaded)
     IN  [i \in 1..Len(kept) |-> [key |-> kept[i], val |-> served[kept[i]]]] :
     served \in LoadFileSets, loaded \in LoadedMethodSets}

TableInit == \E table \in TableRawTables, st \in StatsChoices : LoadedState(table, st)

\* the strings handed to getDatasetCategory: configured names, names that
\* differ from a configured name in letter case only, and unlisted names
DatasetInputs ==
    {"CoNIC2022", "CoNSeP", "cpm15", "cpm17", "kumar", "Kumar", "Lizard", "NuCLS",
     "PanNuke", "TNBC", "GlaS", "CRAG", "RINGS", "BCSS", "CoCaHis", "COSAS24",
     "EBHI", "WSSS4LUAD", "Janowczyk",
     "glas", "GLAS", "KUMAR", "lizard", "bcss", "crag", "CONSEP", "Pannuke",
     "Nuclear", "Gland", "Tissue", "Other", "Misc", "", " GlaS", "GlaS "}

\* one call getDatasetCategory(dataset), its result observed in `classified`
Classify(dataset) ==
    /\ classified' = Some(<<dataset, getDatasetCategory(dataset)>>)
    /\ UNCHANGED <<serverVars, foldVars, tabVars, clicks, perfClassified, variantDetailedStats, perfViewVars, tableVars, mainVars, failureShown, loadVars, leaderboardVars, perfVars, perfStateVars>>

\* the earlier variant's computeDetailedStats called with the rawData and
\* stats the page holds
VariantCall ==
    /\ pc = "ready"
    /\ variantDetailedStats = None
    /\ variantDetailedStats' =
           Some(variantComputeDetailedStats(globalData.rawData, globalData.stats[1]))
    /\ UNCHANGED <<serverVars, foldVars, tabVars, clicks, perfViewVars, perfClassified,
                   tableVars, mainVars, failureShown, loadVars, leaderboardVars,
                   classified, perfVars, perfStateVars>>

\* performance.js: one call getDatasetCategory(dataset), its result observed
PerfClassify(dataset) ==
    /\ perfClassified' = Some(<<dataset, perfGetDatasetCategory(dataset)>>)
    /\ UNCHANGED <<serverVars, foldVars, tabVars, clicks, perfViewVars, tableVars, mainVars,
                   failureShown, loadVars, leaderboardVars, classified, perfVars,
                   perfStateVars, variantDetailedStats>>

\* the response of the stats.json fetch arrives (or the fetch fails)
FetchStatsSettle(outcome) ==
    /\ statsFetch = "pending"
    /\ outcome = "ok" => statsFile # None
    /\ statsFetch' = outcome
    /\ UNCHANGED <<serverVars, foldVars, tabVars, clicks, perfClassified, variantDetailedStats, perfViewVars, tableVars, mainVars, failureShown, methodFetch, loadAllDataPromise, leaderboardVars,
                   classified, perfVars, perfStateVars>>

\* leaderboard.js: the response of one method file arrives (or the fetch fails)
FetchMethodSettle(m, outcome) ==
    /\ methodFetch[m] = "pending"
    /\ outcome = "ok" => files[m] # None
    /\ methodFetch' = [methodFetch EXCEPT ![m] = outcome]
    /\ UNCHANGED <<serverVars, foldVars, tabVars, clicks, perfClassified, variantDetailedStats, perfViewVars, tableVars, mainVars, failureShown, statsFetch, loadAllDataPromise, leaderboardVars,
                   classified, perfVars, perfStateVars>>

\* loadAllData after `await Promise.all(promises)`
LoadAllDataJoin ==
    /\ loadAllDataPromise.state = "pending"
    /\ loadAllData(methodFetch, files).state # "pending"
    /\ loadAllDataPromise' = loadAllData(methodFetch, files)
    /\ UNCHANGED <<serverVars, foldVars, tabVars, clicks, perfClassified, variantDetailedStats, perfViewVars, tableVars, mainVars, failureShown, statsFetch, methodFetch, leaderboardVars, classified,
                   perfVars, perfStateVars>>

\* init() after `await Promise.all([loadStats(), loadAllData()])`, up to its return
InitAfterLoad ==
    /\ pc = "awaiting"
    /\ LET all == PromiseAll(<<loadStats(statsFetch, statsFile), loadAllDataPromise>>)
       IN  /\ all.state # "pending"
           /\ IF all.state = "rejected"
              THEN /\ pc' = "rejected"
                   /\ UNCHANGED <<globalData, calls, methodTable, selectedModel,
                                  modelDatasetTable, tableData, tbody, tasksTable>>
              ELSE LET stats == all.value[1][1]
                       rawData == all.value[1][2][1]
                   IN  IF stats = None
                       THEN /\ pc' = "failed"
                            /\ UNCHANGED <<globalData, calls, methodTable, selectedModel,
                                           modelDatasetTable, tableData, tbody,
                                           tasksTable>>
                       ELSE LET detailedStats == computeDetailedStats(rawData, stats[1])
                                model_ranks == stats[1].model_ranks
                                datasets == getUniqueDatasets(stats[1].dataset_sota)
                                rows == BuildTableData(model_ranks, detailedStats, datasets)
                            IN  /\ globalData' = [stats |-> stats, rawData |-> rawData,
                                                  detailedStats |-> Some(detailedStats),
                                                  datasets |-> Some(datasets),
                                                  totalModels |-> Some(Len(model_ranks))]
                                /\ calls' = calls + 1
                                /\ tableData' = rows
                                /\ tbody' = Some(rows)
                                /\ tasksTable' =
                                       Some(renderTasksTable(stats[1].dataset_sota, "all"))
                                /\ methodTable' =
                                       Some(renderMethodTable(model_ranks, detailedStats))
                                /\ IF Len(model_ranks) > 0
                                   THEN /\ selectedModel' = Some(model_ranks[1].model_key)
                                        /\ modelDatasetTable' =
                                               Some(renderModelDatasetTable(
                                                        model_ranks[1].model_key, rawData))
                                   ELSE UNCHANGED <<selectedModel, modelDatasetTable>>
                                /\ pc' = "ready"
    /\ UNCHANGED <<serverVars, tabVars, clicks, perfClassified, variantDetailedStats, perfViewVars, mainVars, failureShown, loadVars, prevDetailedStats,
                   classified, perfVars, perfStateVars, currentSort, searchInput,
                   activeTask, activeMethod>>

\* init() from the await to its return as one step
InitResume == InitAfterLoad /\ UNCHANGED foldVars

\* computeDetailedStats taken one step of its category fold at a time: the
\* loads have settled with a summary, and modelCategoryRanks is initialised
FoldBegin ==
    /\ pc = "awaiting"
    /\ foldPc = "idle"
    /\ loadAllDataPromise.state = "fulfilled"
    /\ loadStats(statsFetch, statsFile).state = "fulfilled"
    /\ loadStats(statsFetch, statsFile).value # None
    /\ foldAcc' = InitModelCategoryRanks(
                      loadStats(statsFetch, statsFile).value[1].model_ranks)
    /\ foldIndex' = 1
    /\ foldPc' = "folding"
    /\ UNCHANGED <<serverVars, tabVars, clicks, perfClassified, variantDetailedStats, perfViewVars, loadVars, leaderboardVars, classified, perfVars,
                   perfStateVars, mainVars, failureShown, tableVars>>

\* one iteration of the loops over rawData and methodData
FoldPair ==
    /\ foldPc = "folding"
    /\ foldIndex <= Len(MethodDatasetPairs(loadAllDataPromise.value[1]))
    /\ foldAcc' = CategoryFoldStep(
                      foldAcc, MethodDatasetPairs(loadAllDataPromise.value[1])[foldIndex])
    /\ foldIndex' = foldIndex + 1
    /\ UNCHANGED <<serverVars, tabVars, clicks, perfClassified, variantDetailedStats, perfViewVars, loadVars, leaderboardVars, classified, perfVars,
                   perfStateVars, mainVars, failureShown, tableVars, foldPc>>

\* the loop that adds NuclearAvg, GlandAvg and TissueAvg
FoldAverages ==
    /\ foldPc = "folding"
    /\ foldIndex > Len(MethodDatasetPairs(loadAllDataPromise.value[1]))
    /\ foldAcc' = WithCategoryAvgs(foldAcc)
    /\ foldPc' = "averaged"
    /\ UNCHANGED <<serverVars, tabVars, clicks, perfClassified, variantDetailedStats, perfViewVars, loadVars, leaderboardVars, classified, perfVars,
                   perfStateVars, mainVars, failureShown, tableVars, foldIndex>>

\* the rest of computeDetailedStats and of init
FoldReturn ==
    /\ foldPc = "averaged"
    /\ InitAfterLoad
    /\ foldPc' = "done"
    /\ UNCHANGED <<foldIndex, foldAcc>>

\* the 'change' listener of initModelSelector: updateModelInfo(modelKey, ...)
ModelSelectorChange(modelKey) ==
    /\ pc = "ready"
    /\ modelKey \in ModelKeys(globalData.stats[1].model_ranks)
    /\ selectedModel' = Some(modelKey)
    /\ modelDatasetTable' = Some(renderModelDatasetTable(modelKey, globalData.rawData))
    /\ UNCHANGED <<serverVars, foldVars, tabVars, clicks, perfClassified, variantDetailedStats, perfViewVars, tableVars, mainVars, failureShown, loadVars, pc, globalData, calls, prevDetailedStats,
                   methodTable, classified, perfVars, perfStateVars>>

\* a computeDetailedStats that deletes the entries without Mean_Dice from the
\* models objects it is handed instead of filtering a copy
CallComputeDetailedStatsPruning ==
    /\ pc = "ready"
    /\ calls < MaxCalls
    /\ prevDetailedStats' = globalData.detailedStats
    /\ globalData' =
           [globalData EXCEPT
               !.detailedStats = Some(computeDetailedStats(globalData.rawData,
                                                           globalData.stats[1])),
               !.rawData =
                   [i \in 1..Len(@) |->
                       [key |-> @[i].key,
                        val |-> [j \in 1..Len(@[i].val) |->
                                   [key |-> @[i].val[j].key,
                                    val |-> SelectSeq(@[i].val[j].val,
                                               LAMBDA e : HasMetric(e, "Mean_Dice"))]]]]]
    /\ calls' = calls + 1
    /\ UNCHANGED <<serverVars, foldVars, tabVars, clicks, perfClassified, variantDetailedStats, perfViewVars, tableVars, mainVars, failureShown, loadVars, pc,
                   methodTable, selectedModel, modelDatasetTable, classified, perfVars,
                   perfStateVars>>

\* a further call computeDetailedStats(globalData.rawData, globalData.stats)
CallComputeDetailedStats ==
    /\ pc = "ready"
    /\ calls < MaxCalls
    /\ prevDetailedStats' = globalData.detailedStats
    /\ globalData' = [globalData EXCEPT !.detailedStats =
                         Some(computeDetailedStats(globalData.rawData,
                                                   globalData.stats[1]))]
    /\ calls' = calls + 1
    /\ UNCHANGED <<serverVars, foldVars, tabVars, clicks, perfClassified, variantDetailedStats, perfViewVars, tableVars, mainVars, failureShown, loadVars, pc, methodTable, selectedModel,
                   modelDatasetTable, classified, perfVars, perfStateVars>>

\* the header cells of the leaderboard table that carry a click listener
SortColumns ==
    {"rank", "model", "overall"}
        \cup {globalData.datasets[1][i] : i \in 1..Len(globalData.datasets[1])}

\* a handleSort that calls tableData.sort(...) instead of sorting a copy
HandleSortInPlace(column) ==
    /\ pc = "ready"
    /\ column \in SortColumns
    /\ LET direction == IF currentSort.column = column
                        THEN IF currentSort.direction = "asc" THEN "desc" ELSE "asc"
                        ELSE "asc"
           sorted == SortRows(tableData, Len(tableData), column,
                              HeaderType(column), direction)
       IN  /\ currentSort' = [column |-> column, direction |-> direction]
           /\ tableData' = sorted
           /\ tbody' = Some(sorted)
    /\ UNCHANGED <<serverVars, foldVars, tabVars, perfViewVars, perfClassified, variantDetailedStats, mainVars, failureShown, loadVars, leaderboardVars,
                   classified, perfVars, perfStateVars, searchInput,
                   tasksTable, activeTask, activeMethod>>

\* a handleSort that flips the direction on every click
HandleSortAlwaysFlip(column) ==
    /\ pc = "ready"
    /\ column \in SortColumns
    /\ LET direction == IF currentSort.direction = "asc" THEN "desc" ELSE "asc"
       IN  /\ currentSort' = [column |-> column, direction |-> direction]
           /\ tbody' = Some(SortRows(tableData, Len(tableData), column,
                                     HeaderType(column), direction))
    /\ UNCHANGED <<serverVars, foldVars, tabVars, perfViewVars, perfClassified, variantDetailedStats, mainVars, failureShown, loadVars, leaderboardVars,
                   classified, perfVars, perfStateVars, tableData, searchInput,
                   tasksTable, activeTask, activeMethod>>

\* click on the header cell of `column`: handleSort(th.dataset.sort, th.dataset.type)
HandleSort(column) ==
    /\ pc = "ready"
    /\ column \in SortColumns
    /\ LET direction == IF currentSort.column = column
                        THEN IF currentSort.direction = "asc" THEN "desc" ELSE "asc"
                        ELSE "asc"
       IN  /\ currentSort' = [column |-> column, direction |-> direction]
           /\ tbody' = Some(SortRows(tableData, Len(tableData), column,
                                     HeaderType(column), direction))
    /\ UNCHANGED <<serverVars, foldVars, tabVars, perfViewVars, perfClassified, variantDetailedStats, mainVars, failureShown, loadVars, leaderboardVars,
                   classified, perfVars, perfStateVars, tableData, searchInput,
                   tasksTable, activeTask, activeMethod>>

\* the values typed into the search box
Queries == {"", "M", " M2 ", "zz"}

\* the 'input' listener of initSearch
SearchInput(value) ==
    /\ pc = "ready"
    /\ searchInput' = value
    /\ LET query == Trim(ToLowerCase(value))
       IN  tbody' = IF query = "" THEN Some(tableData)
                    ELSE Some(FilterRows(tableData, query))
    /\ UNCHANGED <<serverVars, foldVars, tabVars, clicks, perfClassified, variantDetailedStats, perfViewVars, mainVars, failureShown, loadVars, leaderboardVars,
                   classified, perfVars, perfStateVars, tableData, currentSort,
                   tasksTable, activeTask, activeMethod>>

\* data-task of the .lb-task-btn buttons
TaskButtons == {"all", "nuclear", "gland", "tissue"}

\* the 'click' listener of initTaskFilter
TaskFilterClick(task) ==
    /\ pc = "ready"
    /\ activeTask' = task
    /\ tasksTable' = Some(renderTasksTable(globalData.stats[1].dataset_sota, task))
    /\ UNCHANGED <<serverVars, foldVars, tabVars, clicks, perfClassified, variantDetailedStats, perfViewVars, mainVars, failureShown, loadVars, leaderboardVars,
                   classified, perfVars, perfStateVars, tableData, currentSort, tbody,
                   searchInput, activeMethod>>

\* data-method of the .lb-method-btn buttons
MethodButtons == {"all", "frozen"}

\* the 'click' listener of initMethodFilter: only the active class moves
MethodFilterClick(method) ==
    /\ pc = "ready"
    /\ activeMethod' = method
    /\ UNCHANGED <<serverVars, foldVars, tabVars, clicks, perfClassified, variantDetailedStats, perfViewVars, mainVars, failureShown, loadVars, leaderboardVars,
                   classified, perfVars, perfStateVars, tableData, currentSort, tbody,
                   searchInput, tasksTable, activeTask>>

\* performance.js: the response of one method file arrives (or the fetch fails)
PerfFetchMethodSettle(m, outcome) ==
    /\ perfMethodFetch[m] = "pending"
    /\ outcome = "ok" => files[m] # None
    /\ perfMethodFetch' = [perfMethodFetch EXCEPT ![m] = outcome]
    /\ UNCHANGED <<serverVars, foldVars, tabVars, clicks, perfClassified, variantDetailedStats, perfViewVars, tableVars, mainVars, failureShown, loadVars, leaderboardVars, classified, perfLoadPromise,
                   perfPc, perfData, perfStateVars>>

\* loadAllPerformanceData after `await Promise.all(promises)`
LoadAllPerformanceDataJoin ==
    /\ perfLoadPromise.state = "pending"
    /\ loadAllPerformanceData(perfMethodFetch, files).state # "pending"
    /\ perfLoadPromise' = loadAllPerformanceData(perfMethodFetch, files)
    /\ UNCHANGED <<serverVars, foldVars, tabVars, clicks, perfClassified, variantDetailedStats, perfViewVars, tableVars, mainVars, failureShown, loadVars, leaderboardVars, classified, perfMethodFetch,
                   perfPc, perfData, perfStateVars>>

\* performance.js initPerformanceTab after `await loadAllPerformanceData()`
PerfTabResume ==
    /\ perfPc = "awaiting"
    /\ perfLoadPromise.state # "pending"
    /\ IF perfLoadPromise.state = "rejected"
       THEN perfPc' = "rejected" /\ UNCHANGED <<perfData, failureShown, perfCards>>
       ELSE LET rawData == perfLoadPromise.value
            IN  IF rawData = None \/ Len(rawData[1]) = 0
                THEN /\ perfPc' = "failed"
                     /\ failureShown' = failureShown \cup {"perf-datasets-container"}
                     /\ UNCHANGED <<perfData, perfCards>>
                ELSE /\ perfData' = [rawData |-> rawData[1],
                                     processedData |-> processPerformanceData(rawData[1])]
                     /\ perfCards' = Some(renderAllDatasetCards(
                                         processPerformanceData(rawData[1]), currentFilters))
                     /\ perfPc' = "ready"
                     /\ UNCHANGED failureShown
    /\ UNCHANGED <<serverVars, foldVars, tabVars, clicks, perfClassified, variantDetailedStats, currentFilters, tableVars, mainVars, loadVars, leaderboardVars, classified, perfMethodFetch,
                   perfLoadPromise, perfStateVars>>

\* the values typed into #perf-search
PerfQueries == {"", "Gla", "zz"}

\* the options of #perf-category-filter
PerfCategoryOptions == {"all", "Nuclear", "Gland", "Tissue"}

\* the options of #perf-metric-filter
PerfMetricOptions == {"all", "Mean_Dice", "mIoU"}

\* performance.js: the 'input' listener of #perf-search
PerfSearchInput(value) ==
    /\ perfPc = "ready"
    /\ currentFilters' = [currentFilters EXCEPT !.search = value]
    /\ perfCards' = Some(renderAllDatasetCards(perfData.processedData, currentFilters'))
    /\ UNCHANGED <<serverVars, foldVars, tabVars, clicks, perfClassified, variantDetailedStats, tableVars, mainVars, loadVars,
                   leaderboardVars, classified, perfVars, perfStateVars, failureShown>>

\* performance.js: the 'change' listener of #perf-category-filter
PerfCategoryChange(category) ==
    /\ perfPc = "ready"
    /\ currentFilters' = [currentFilters EXCEPT !.category = category]
    /\ perfCards' = Some(renderAllDatasetCards(perfData.processedData, currentFilters'))
    /\ UNCHANGED <<serverVars, foldVars, tabVars, clicks, perfClassified, variantDetailedStats, tableVars, mainVars, loadVars,
                   leaderboardVars, classified, perfVars, perfStateVars, failureShown>>

\* performance.js: the 'change' listener of #perf-metric-filter
PerfMetricChange(metricKey) ==
    /\ perfPc = "ready"
    /\ currentFilters' = [currentFilters EXCEPT !.metric = metricKey]
    /\ perfCards' = Some(applyMetricFilter(perfCards[1], metricKey))
    /\ UNCHANGED <<serverVars, foldVars, tabVars, clicks, perfClassified, variantDetailedStats, tableVars, mainVars, loadVars,
                   leaderboardVars, classified, perfVars, perfStateVars, failureShown>>

FilterNext ==
    \/ PerfTabResume
    \/ \E value \in PerfQueries : PerfSearchInput(value)
    \/ \E category \in PerfCategoryOptions : PerfCategoryChange(category)
    \/ \E metricKey \in PerfMetricOptions : PerfMetricChange(metricKey)

Init == \E table \in RawTables, st \in StatsChoices : LoadedState(table, st)

\* tab variant: the response of one method file arrives (or the fetch fails)
PerfStateFetchMethodSettle(m, outcome) ==
    /\ perfStateMethodFetch[m] = "pending"
    /\ outcome = "ok" => files[m] # None
    /\ perfStateMethodFetch' = [perfStateMethodFetch EXCEPT ![m] = outcome]
    /\ UNCHANGED <<serverVars, foldVars, tabVars, clicks, perfClassified, variantDetailedStats, perfViewVars, tableVars, mainVars, failureShown, loadVars, leaderboardVars, classified, perfVars,
                   perfStateLoadPromise, perfStatePc, perfState>>

\* tab variant loadAllData after `await Promise.all(promises)` or in its catch
PerfStateLoadAllDataJoin ==
    /\ perfStateLoadPromise.state = "pending"
    /\ perfStateLoadAllData(perfStateMethodFetch, files).state # "pending"
    /\ perfStateLoadPromise' = perfStateLoadAllData(perfStateMethodFetch, files)
    /\ UNCHANGED <<serverVars, foldVars, tabVars, clicks, perfClassified, variantDetailedStats, perfViewVars, tableVars, mainVars, failureShown, loadVars, leaderboardVars, classified, perfVars,
                   perfStateMethodFetch, perfStatePc, perfState>>

\* tab variant initPerformanceTab after `await loadAllData()`
PerfStateTabResume ==
    /\ perfStatePc = "awaiting"
    /\ perfStateLoadPromise.state # "pending"
    /\ IF perfStateLoadPromise.state = "rejected"
       THEN perfStatePc' = "rejected" /\ UNCHANGED <<perfState, failureShown>>
       ELSE LET rawData == perfStateLoadPromise.value
            IN  IF rawData = None \/ Len(rawData[1]) = 0
                THEN /\ perfStatePc' = "failed"
                     /\ failureShown' = failureShown \cup {"perf-datasets-container"}
                     /\ UNCHANGED perfState
                ELSE /\ perfState' = [rawData |-> rawData,
                                      processedData |-> Some(processData(rawData[1])),
                                      isLoaded |-> TRUE]
                     /\ perfStatePc' = "ready"
                     /\ UNCHANGED failureShown
    /\ UNCHANGED <<serverVars, foldVars, tabVars, clicks, perfClassified, variantDetailedStats, perfViewVars, tableVars, mainVars, loadVars, leaderboardVars, classified, perfVars,
                   perfStateMethodFetch, perfStateLoadPromise>>

\* what the fetches of one loadAllData call can come to: every file served,
\* one file missing, one response lost, every file missing
TabOutcomes ==
    { [m \in MethodSet |-> "ok"],
      [m \in MethodSet |-> IF m = "frozen" THEN "http" ELSE "ok"],
      [m \in MethodSet |-> IF m = "lora" THEN "network" ELSE "ok"],
      [m \in MethodSet |-> "http"] }

\* a host page where the performance tab has not been opened yet
TabInit ==
    \E served \in LoadFileSets, st \in StatsChoices : PageInit(served, st, "host")

\* an initPerformanceTab that has no `if (perfState.isLoaded && ...)` return
TabCallAlwaysLoading ==
    /\ Len(tabCalls) < MaxTabCalls
    /\ tabCalls' = Append(tabCalls, [pc |-> "awaiting", promise |-> Pending])
    /\ fetchCount' = [m \in MethodSet |-> fetchCount[m] + 1]
    /\ failureShown' = failureShown \ {"perf-datasets-container"}
    /\ UNCHANGED <<renderCount, processCount, listenerCount>>
    /\ UNCHANGED <<serverVars, foldVars, clicks, perfClassified, variantDetailedStats, perfViewVars, tableVars, mainVars, loadVars, leaderboardVars,
                   classified, perfVars, perfStateVars>>

\* tab variant: a call of window.initPerformanceTab(), up to its first await
\* or to the return that follows renderView()
TabCall ==
    /\ Len(tabCalls) < MaxTabCalls
    /\ IF perfState.isLoaded /\ perfState.processedData # None
       THEN /\ tabCalls' = Append(tabCalls, [pc |-> "returned", promise |-> Pending])
            /\ renderCount' = renderCount + 1
            /\ UNCHANGED <<fetchCount, processCount, listenerCount>>
       ELSE /\ tabCalls' = Append(tabCalls, [pc |-> "awaiting", promise |-> Pending])
            /\ fetchCount' = [m \in MethodSet |-> fetchCount[m] + 1]
            /\ UNCHANGED <<renderCount, processCount, listenerCount>>
    /\ failureShown' = failureShown \ {"perf-datasets-container"}
    /\ UNCHANGED <<serverVars, foldVars, clicks, perfClassified, variantDetailedStats, perfViewVars, tableVars, mainVars, loadVars, leaderboardVars,
                   classified, perfVars, perfStateVars>>

\* tab variant: the fetches of call c have settled and its loadAllData returns
TabLoadAllDataReturn(c, outcomes) ==
    /\ c \in 1..Len(tabCalls)
    /\ tabCalls[c].pc = "awaiting"
    /\ tabCalls[c].promise.state = "pending"
    /\ \A m \in MethodSet : outcomes[m] = "ok" => files[m] # None
    /\ tabCalls' = [tabCalls EXCEPT ![c].promise = perfStateLoadAllData(outcomes, files)]
    /\ UNCHANGED <<serverVars, foldVars, clicks, perfClassified, variantDetailedStats, perfViewVars, tableVars, mainVars, loadVars, leaderboardVars,
                   classified, perfVars, perfStateVars, failureShown,
                   fetchCount, processCount, listenerCount, renderCount>>

\* tab variant: call c of initPerformanceTab after `await loadAllData()`
TabResume(c) ==
    /\ c \in 1..Len(tabCalls)
    /\ tabCalls[c].pc = "awaiting"
    /\ tabCalls[c].promise.state = "fulfilled"
    /\ LET rawData == tabCalls[c].promise.value
       IN  IF rawData = None \/ Len(rawData[1]) = 0
           THEN /\ tabCalls' = [tabCalls EXCEPT ![c].pc = "failed"]
                /\ failureShown' = failureShown \cup {"perf-datasets-container"}
                /\ UNCHANGED <<perfState, processCount, listenerCount, renderCount>>
           ELSE /\ perfState' = [rawData |-> rawData,
                                 processedData |-> Some(processData(rawData[1])),
                                 isLoaded |-> TRUE]
                /\ processCount' = processCount + 1
                /\ listenerCount' = listenerCount + 1
                /\ renderCount' = renderCount + 1
                /\ failureShown' = failureShown \ {"perf-datasets-container"}
                /\ tabCalls' = [tabCalls EXCEPT ![c].pc = "ready"]
    /\ UNCHANGED <<serverVars, foldVars, clicks, perfClassified, variantDetailedStats, perfViewVars, tableVars, mainVars, loadVars, leaderboardVars,
                   classified, perfVars, perfStateMethodFetch, perfStateLoadPromise,
                   perfStatePc, fetchCount>>

TabNext ==
    \/ TabCall
    \/ \E c \in 1..MaxTabCalls, outcomes \in TabOutcomes : TabLoadAllDataReturn(c, outcomes)
    \/ \E c \in 1..MaxTabCalls : TabResume(c)

TabSpec == TabInit /\ [][TabNext]_vars

Next ==
    \/ InitResume
    \/ \E modelKey \in ModelPool \cup {"m4"} : ModelSelectorChange(modelKey)
    \/ CallComputeDetailedStats

Spec == Init /\ [][Next]_vars

ScanNext ==
    \/ InitResume
    \/ \E modelKey \in ModelPool \cup {"m4"} : ModelSelectorChange(modelKey)
    \/ PerfTabResume

ScanSpec == Init /\ [][ScanNext]_vars

PerfNext ==
    \/ PerfTabResume
    \/ PerfStateTabResume

PerfSpec == Init /\ [][PerfNext]_vars

\* main.js: the response of the summary file arrives (or the fetch fails)
MainFetchStatsSettle(outcome) ==
    /\ mainStatsFetch = "pending"
    /\ outcome = "ok" => statsFile # None
    /\ mainStatsFetch' = outcome
    /\ UNCHANGED <<serverVars, foldVars, tabVars, clicks, perfClassified, variantDetailedStats, perfViewVars, tableVars, loadVars, leaderboardVars, classified, perfVars,
                   perfStateVars, mainPc, mainRendered, failureShown>>

\* main.js init() after `await loadStats()`
MainInitResume ==
    /\ mainPc = "awaiting"
    /\ mainLoadStats(mainStatsFetch, statsFile).state = "fulfilled"
    /\ IF mainLoadStats(mainStatsFetch, statsFile).value # None
       THEN /\ mainRendered' = TRUE
            /\ mainPc' = "ready"
            /\ UNCHANGED failureShown
       ELSE /\ failureShown' =
                   failureShown \cup {"dataset-sota-tbody", "model-ranks-tbody"}
            /\ mainPc' = "failed"
            /\ UNCHANGED mainRendered
    /\ UNCHANGED <<serverVars, foldVars, tabVars, clicks, perfClassified, variantDetailedStats, perfViewVars, tableVars, loadVars, leaderboardVars, classified, perfVars,
                   perfStateVars, mainStatsFetch>>

LoadNext ==
    \/ \E outcome \in Outcomes : FetchStatsSettle(outcome)
    \/ \E m \in MethodSet, outcome \in Outcomes : FetchMethodSettle(m, outcome)
    \/ LoadAllDataJoin
    \/ InitResume
    \/ \E m \in MethodSet, outcome \in Outcomes : PerfFetchMethodSettle(m, outcome)
    \/ LoadAllPerformanceDataJoin
    \/ PerfTabResume
    \/ \E m \in MethodSet, outcome \in Outcomes : PerfStateFetchMethodSettle(m, outcome)
    \/ PerfStateLoadAllDataJoin
    \/ PerfStateTabResume
    \/ \E outcome \in Outcomes : MainFetchStatsSettle(outcome)
    \/ MainInitResume

LoadSpec == LoadInit /\ [][LoadNext]_vars

TableNext ==
    \/ InitResume
    \/ \E column \in {"rank", "model", "overall"} \cup
                       {allDatasets[i] : i \in 1..Len(allDatasets)} :
           HandleSort(column) /\ UNCHANGED clicks
    \/ \E value \in Queries : SearchInput(value)
    \/ \E task \in TaskButtons : TaskFilterClick(task)
    \/ \E method \in MethodButtons : MethodFilterClick(method)
    \/ \E modelKey \in ModelPool \cup {"m4"} : ModelSelectorChange(modelKey)
    \/ CallComputeDetailedStats

TableSpec == TableInit /\ [][TableNext]_vars

\* a click on a header cell, recorded in the history
ClickSort(column) ==
    /\ Len(clicks) < MaxClicks
    /\ HandleSort(column)
    /\ clicks' = Append(clicks, column)

SortNext ==
    \/ InitResume
    \/ \E column \in {"rank", "model", "overall"} \cup
                       {allDatasets[i] : i \in 1..Len(allDatasets)} : ClickSort(column)

SortSpec == TableInit /\ [][SortNext]_vars

FilterSpec == TableInit /\ [][FilterNext]_vars

FoldNext ==
    \/ FoldBegin
    \/ FoldPair
    \/ FoldAverages
    \/ FoldReturn

FoldSpec == Init /\ [][FoldNext]_vars

ClassifyNext == \E dataset \in DatasetInputs : Classify(dataset)

ClassifySpec == LoadInit /\ [][ClassifyNext]_vars

VariantNext ==
    \/ InitResume
    \/ VariantCall

VariantSpec == Init /\ [][VariantNext]_vars

ViewsNext ==
    \/ \E dataset \in DatasetInputs : Classify(dataset)
    \/ \E dataset \in DatasetInputs : PerfClassify(dataset)

ViewsSpec == LoadInit /\ [][ViewsNext]_vars

-----------------------------------------------------------------------------
(* Properties *)

Pairs == MethodDatasetPairs(globalData.rawData)

DiceModels(models) ==
    {models[i].key : i \in {j \in 1..Len(models) : HasMetric(models[j], "Mean_Dice")}}

DiceOf(models, k) == Get(models, k)["Mean_Dice"].mean

IndexOf(models, k) == CHOOSE i \in 1..Len(models) : models[i].key = k

\* the rank of model k among the models of one (method, dataset) pair: one more
\* than the number of models that score higher or score the same and come earlier
RankIn(models, k) ==
    1 + Cardinality({o \in DiceModels(models) :
                        \/ DiceOf(models, o) > DiceOf(models, k)
                        \/ /\ DiceOf(models, o) = DiceOf(models, k)
                           /\ IndexOf(models, o) < IndexOf(models, k)})

ModelCategoryRanks == globalData.detailedStats[1].modelCategoryRanks

ModelMethodPerformance == globalData.detailedStats[1].modelMethodPerformance

ModelDatasetRanks == globalData.detailedStats[1].modelDatasetRanks

\* C1: in every (method, dataset) pair the rank step hands out the ranks 1..k,
\* each once, to exactly the k models that have a Mean_Dice observation, and
\* the model ranked 1 has the maximum mean.
C1_RanksArePermutation ==
    pc = "ready" =>
        \A p \in 1..Len(Pairs) :
            LET models == Pairs[p].models
                assigned == PushMethodRanks(<< >>, RankScores(models), 1)
                ranked == DiceModels(models)
            IN  /\ DOMAIN assigned = ranked
                /\ \A m \in ranked : Len(assigned[m]) = 1
                /\ {assigned[m][1] : m \in ranked} = 1..Cardinality(ranked)
                /\ \A m \in ranked :
                       assigned[m][1] = 1 =>
                           \A o \in ranked : DiceOf(models, o) <= DiceOf(models, m)

\* a pair with three ranked models, two of them tied and one apart
C1_Witness ==
    /\ pc = "ready"
    /\ \E p \in 1..Len(Pairs) :
           LET models == Pairs[p].models
           IN  /\ Cardinality(DiceModels(models)) = 3
               /\ \E a, b, c \in DiceModels(models) :
                      /\ a # b
                      /\ DiceOf(models, a) = DiceOf(models, b)
                      /\ DiceOf(models, c) # DiceOf(models, a)

\* the loaded methods under which model k has a Mean_Dice observation for dataset d
MethodsRanking(rawData, d, k) ==
    {i \in 1..Len(rawData) :
        /\ HasKey(rawData[i].val, d)
        /\ k \in DiceModels(Get(rawData[i].val, d))}

RankSum(rawData, d, k) ==
    Sum([i \in 1..Len(rawData) |->
            IF i \in MethodsRanking(rawData, d, k)
            THEN RankIn(Get(rawData[i].val, d), k) ELSE 0])

DatasetNames(rawData) == {MethodDatasetPairs(rawData)[p].dataset :
                              p \in 1..Len(MethodDatasetPairs(rawData))}

CategoryAvgOf(entry, category) ==
    CASE category = "Nuclear" -> entry.NuclearAvg
      [] category = "Gland" -> entry.GlandAvg
      [] category = "Tissue" -> entry.TissueAvg

CategorySet == {Categories[i] : i \in 1..Len(Categories)}

\* C3: a model without collected ranks in a category has the average 999, a
\* model with ranks has their arithmetic mean, and 999 is greater than the
\* average of every model that has ranks in the category.
C3_CategorySentinel ==
    pc = "ready" =>
        \A c \in CategorySet :
            /\ \A k \in DOMAIN ModelCategoryRanks :
                   LET ranks == ModelCategoryRanks[k][c]
                       avg == CategoryAvgOf(ModelCategoryRanks[k], c)
                   IN  /\ Len(ranks) = 0 => avg = <<999, 1>>
                       /\ Len(ranks) > 0 =>
                              /\ avg[2] > 0
                              /\ avg[1] * Len(ranks) = avg[2] * Sum(ranks)
            /\ \A k, o \in DOMAIN ModelCategoryRanks :
                   (Len(ModelCategoryRanks[k][c]) = 0 /\ Len(ModelCategoryRanks[o][c]) > 0)
                       => FracLess(CategoryAvgOf(ModelCategoryRanks[o], c),
                                   CategoryAvgOf(ModelCategoryRanks[k], c))

\* Gland: m4 has no rank, another model has the ranks 1 and 2 (average 1.5)
C3_Witness ==
    /\ pc = "ready"
    /\ Len(ModelCategoryRanks["m4"].Gland) = 0
    /\ \E k \in DOMAIN ModelCategoryRanks :
           /\ Len(ModelCategoryRanks[k].Gland) = 2
           /\ ModelCategoryRanks[k].GlandAvg = <<3, 2>>

\* the Mean_Dice means of model k under method x, over all datasets
MeansUnder(rawData, k, x) ==
    LET pairs == MethodDatasetPairs(rawData)
    IN  SelectSeq([p \in 1..Len(pairs) |->
                      IF pairs[p].method = x /\ k \in DiceModels(pairs[p].models)
                      THEN DiceOf(pairs[p].models, k) ELSE -1],
                  LAMBDA v : v >= 0)

ObservedModels(rawData) ==
    UNION {DiceModels(MethodDatasetPairs(rawData)[p].models) :
              p \in 1..Len(MethodDatasetPairs(rawData))}

\* C4: for every model with a Mean_Dice observation and every configured
\* method X, the X average is the arithmetic mean of the model's Mean_Dice
\* means under X, one per dataset, and null when there is none.
C4_MethodAverage ==
    pc = "ready" =>
        \A k \in ObservedModels(globalData.rawData) :
            /\ k \in DOMAIN ModelMethodPerformance
            /\ \A x \in MethodSet :
                   LET means == MeansUnder(globalData.rawData, k, x)
                       avg == ModelMethodPerformance[k].avg[x]
                   IN  /\ Len(means) = 0 => avg = None
                       /\ Len(means) > 0 =>
                              /\ avg # None
                              /\ avg[1][2] > 0
                              /\ avg[1][1] * Len(means) = avg[1][2] * Sum(means)

\* a model seen in two datasets under lora with different means, never under frozen
C4_Witness ==
    /\ pc = "ready"
    /\ \E k \in ObservedModels(globalData.rawData) :
           /\ ModelMethodPerformance[k].scores["lora"] = <<0, 1>>
           /\ ModelMethodPerformance[k].avg["lora"] = Some(<<1, 2>>)
           /\ ModelMethodPerformance[k].avg["frozen"] = None

MethodIndex(m) == CHOOSE i \in 1..Len(Methods) : Methods[i] = m

\* the method picked for a model is the first one, in CONFIG.methods order,
\* whose average is maximal
FirstBestMethod(row) ==
    LET avg == ModelMethodPerformance[row.model_key].avg
    IN  IF row.bestMethod = None
        THEN \A m \in MethodSet : avg[m] = None
        ELSE LET b == row.bestMethod[1]
             IN  /\ avg[b] # None
                 /\ \A m \in MethodSet :
                        avg[m] # None =>
                            /\ ~FracLess(avg[b][1], avg[m][1])
                            /\ MethodIndex(m) < MethodIndex(b)
                                   => FracLess(avg[m][1], avg[b][1])

\* the method shown for a dataset is the first one, in rawData order, under
\* which the selected model reaches its maximal mean for the dataset
FirstBestResult(row, k) ==
    \E i \in MethodsRanking(globalData.rawData, row.dataset, k) :
        LET score(j) == DiceOf(Get(globalData.rawData[j].val, row.dataset), k)
        IN  /\ row.method = methodNames[globalData.rawData[i].key]
            /\ row.score = score(i)
            /\ \A j \in MethodsRanking(globalData.rawData, row.dataset, k) :
                   /\ score(j) <= score(i)
                   /\ j < i => score(j) < score(i)

\* the observations of dataset d and metric key in rawData, each with its
\* place in the iteration: method index, then model index
Observations(rawData, d, key) ==
    {<<i, j>> \in (1..Len(rawData)) \X (1..(MaxModels + MaxPairModels)) :
        /\ HasKey(rawData[i].val, d)
        /\ j <= Len(Get(rawData[i].val, d))
        /\ HasMetric(Get(rawData[i].val, d)[j], key)}

ObservationAt(rawData, d, key, o) ==
    LET e == Get(rawData[o[1]].val, d)[o[2]]
    IN  [model |-> e.key, method |-> rawData[o[1]].key, mean |-> e.val[key].mean]

Before(o, q) == o[1] < q[1] \/ (o[1] = q[1] /\ o[2] < q[2])

\* best is the first observation, in iteration order, whose mean is maximal
FirstBestObservation(rawData, d, key, best) ==
    LET obs == Observations(rawData, d, key)
    IN  IF best = None THEN obs = {}
        ELSE \E o \in obs :
                 /\ best[1] = ObservationAt(rawData, d, key, o)
                 /\ \A q \in obs :
                        LET other == ObservationAt(rawData, d, key, q)
                        IN  /\ other.mean <= best[1].mean
                            /\ Before(q, o) => other.mean < best[1].mean

\* C6: when candidates of a best-result scan share the maximal value, the one
\* met first in iteration order is selected: bestMethod of renderMethodTable,
\* the per-dataset method of renderModelDatasetTable and best of
\* processPerformanceData.
C6_FirstMaximumWins ==
    /\ pc = "ready" =>
           /\ \A r \in 1..Len(methodTable[1]) : FirstBestMethod(methodTable[1][r])
           /\ \A r \in 1..Len(modelDatasetTable[1]) :
                  FirstBestResult(modelDatasetTable[1][r], selectedModel[1])
    /\ perfPc = "ready" =>
           \A d \in 1..Len(perfData.processedData) :
               \A key \in MetricKeySet :
                   FirstBestObservation(perfData.rawData,
                                        perfData.processedData[d].key, key,
                                        perfData.processedData[d].val.metrics[key].best)

\* m1 has the same, maximal Mean_Dice for GlaS under frozen and lora while m2
\* ties with it under lora: all three scans face a tie and take the first
C6_Witness ==
    /\ pc = "ready"
    /\ perfPc = "ready"
    /\ selectedModel = Some("m1")
    /\ Len(globalData.rawData) = 2
    /\ "m1" \in DOMAIN ModelMethodPerformance
    /\ ModelMethodPerformance["m1"].avg["frozen"] = Some(<<1, 1>>)
    /\ ModelMethodPerformance["m1"].avg["lora"] = Some(<<1, 1>>)
    /\ \E r \in 1..Len(methodTable[1]) :
           methodTable[1][r] = [model_key |-> "m1", bestMethod |-> Some("frozen")]
    /\ \E r \in 1..Len(modelDatasetTable[1]) :
           /\ modelDatasetTable[1][r].dataset = "GlaS"
           /\ modelDatasetTable[1][r].method = "Frozen"
    /\ Cardinality({o \in Observations(perfData.rawData, "GlaS", "Mean_Dice") :
                       ObservationAt(perfData.rawData, "GlaS", "Mean_Dice", o).mean = 1}) = 3
    /\ perfData.processedData[1].val.metrics["Mean_Dice"].best[1].method = "frozen"

\* every dataset of the table has an entry and best is a maximal observation
BestIsMaximal(rawData, processed) ==
    /\ KeySet(processed) = DatasetNames(rawData)
    /\ \A d \in 1..Len(processed) :
           \A key \in MetricKeySet :
               LET best == processed[d].val.metrics[key].best
                   obs == Observations(rawData, processed[d].key, key)
               IN  /\ best = None <=> obs = {}
                   /\ best # None =>
                          /\ \E o \in obs :
                                 best[1] = ObservationAt(rawData, processed[d].key, key, o)
                          /\ \A o \in obs :
                                 ObservationAt(rawData, processed[d].key, key, o).mean
                                     <= best[1].mean

\* C7: processPerformanceData and processData give every dataset of the
\* loaded methods, for every recognized metric, a best that is an observation
\* of that dataset and metric with the greatest mean, and null when the
\* dataset has no observation of the metric.
C7_BestIsMaximum ==
    /\ perfPc = "ready" => BestIsMaximal(perfData.rawData, perfData.processedData)
    /\ perfStatePc = "ready" =>
           BestIsMaximal(perfState.rawData[1], perfState.processedData[1])

ProcessedUnequalMeans(processed) ==
    \E d \in 1..Len(processed) :
        LET metrics == processed[d].val.metrics
        IN  /\ Len(metrics["Mean_Dice"].data) >= 2
            /\ metrics["Mean_Dice"].best[1].mean = 1
            /\ metrics["Mean_Dice"].data[2].mean = 0
            /\ metrics["Mean_F1"].best = None

\* both variants have processed a dataset whose Mean_Dice observations differ
\* and which has no Mean_F1 observation
C7_Witness ==
    /\ perfPc = "ready"
    /\ perfStatePc = "ready"
    /\ ProcessedUnequalMeans(perfData.processedData)
    /\ ProcessedUnequalMeans(perfState.processedData[1])

-----------------------------------------------------------------------------
(* Category Classifier *)

MembersOf(category) ==
    {Get(datasetCategories, category)[i] :
        i \in 1..Len(Get(datasetCategories, category))}

CategoryNames == KeySet(datasetCategories)

\* what one call must have produced for the string it was given
ClassifiedExactly(observed) ==
    LET dataset == observed[1][1]
        category == observed[1][2]
    IN  /\ \A c \in CategoryNames : dataset \in MembersOf(c) => category = c
        /\ (\A c \in CategoryNames : dataset \notin MembersOf(c)) => category = "Other"
        /\ category \in CategoryNames \cup {"Other"}

\* C8: every call getDatasetCategory(dataset) is possible for every input
\* string, returns the category whose configured list holds exactly that
\* string (letter case included), returns "Other" when no list holds it,
\* and leaves every variable of the page as it was.
C8_ClassifierExactMatch ==
    [][ /\ \A dataset \in DatasetInputs : ENABLED Classify(dataset)
        /\ classified' # classified =>
              /\ ClassifiedExactly(classified')
              /\ UNCHANGED <<serverVars, foldVars, tabVars, clicks, perfClassified, variantDetailedStats, perfViewVars, tableVars, mainVars, failureShown, loadVars, leaderboardVars, perfVars,
                             perfStateVars>> ]_vars

\* a name that differs from a configured one in letter case only was classified
C8_Witness ==
    /\ classified = Some(<<"glas", "Other">>)
    /\ "GlaS" \in MembersOf("Gland")

-----------------------------------------------------------------------------
(* Concurrency: the join before the aggregation engine *)

NoFetchPending ==
    /\ statsFetch # "pending"
    /\ \A m \in MethodSet : methodFetch[m] # "pending"

\* C9: a step of leaderboard init that runs computeDetailedStats or renders
\* a table is taken only from a state in which the summary fetch and all
\* five per-method fetches have completed, whatever their outcomes and
\* whatever the order in which they completed.
C9_EngineStartsAfterAllFetches ==
    [][ (\/ calls' # calls
         \/ globalData' # globalData
         \/ methodTable' # methodTable
         \/ modelDatasetTable' # modelDatasetTable) => NoFetchPending ]_vars

\* init ran the engine and rendered after a mix of failed and successful fetches
C9_Witness ==
    /\ pc = "ready"
    /\ calls = 1
    /\ methodTable # None
    /\ statsFetch = "ok"
    /\ methodFetch["frozen"] = "network"
    /\ methodFetch["lora"] = "ok"
    /\ methodFetch["cnn"] = "http"

-----------------------------------------------------------------------------
(* Error handling: a failed per-method fetch *)

Succeeded(fetches) == {m \in MethodSet : fetches[m] = "ok"}

\* a settled load that was not aborted and holds exactly the served files
\* of the methods whose fetch succeeded
HoldsExactlySucceeded(promise, fetches) ==
    promise.state # "pending" =>
        /\ promise.state = "fulfilled"
        /\ promise.value # None
        /\ KeySet(promise.value[1]) = Succeeded(fetches)
        /\ \A m \in Succeeded(fetches) : Some(Get(promise.value[1], m)) = files[m]

\* C10: once loadAllData (leaderboard.js) or loadAllPerformanceData
\* (performance.js) has returned, it has returned normally and its raw data
\* has exactly the methods whose fetch succeeded, each with its served file;
\* a method whose fetch failed by HTTP status, network error or unparsable
\* body is absent.
C10_FailedMethodAbsent ==
    /\ HoldsExactlySucceeded(loadAllDataPromise, methodFetch)
    /\ HoldsExactlySucceeded(perfLoadPromise, perfMethodFetch)

AllFailureKinds(fetches) ==
    /\ {fetches[m] : m \in MethodSet} = Outcomes
    /\ fetches["lora"] = "ok"
    /\ fetches["cnn"] = "ok"

\* both loads can return after one failure of each kind and two successes
C10_Witness ==
    \/ /\ loadAllDataPromise.state = "fulfilled"
       /\ AllFailureKinds(methodFetch)
       /\ KeySet(loadAllDataPromise.value[1]) = {"lora", "cnn"}
       /\ globalData.rawData = loadAllDataPromise.value[1]
       /\ pc = "ready"
    \/ /\ perfLoadPromise.state = "fulfilled"
       /\ AllFailureKinds(perfMethodFetch)
       /\ KeySet(perfLoadPromise.value[1]) = {"lora", "cnn"}
       /\ perfData.rawData = perfLoadPromise.value[1]
       /\ perfPc = "ready"

-----------------------------------------------------------------------------
(* Error handling: the performance-tab variant *)

\* C11: when initPerformanceTab of the performance-tab variant has finished
\* and at least one per-method fetch succeeded, the tab is loaded and its
\* raw data holds every method whose fetch succeeded, each with its served
\* file, whichever way the other fetches failed.
C11_TabKeepsSucceededMethods ==
    (perfStatePc \in {"failed", "ready"} /\ Succeeded(perfStateMethodFetch) # {}) =>
        /\ perfStatePc = "ready"
        /\ perfState.rawData # None
        /\ \A m \in Succeeded(perfStateMethodFetch) :
               /\ HasKey(perfState.rawData[1], m)
               /\ Some(Get(perfState.rawData[1], m)) = files[m]
        /\ perfState.processedData # None

-----------------------------------------------------------------------------
(* Error handling: the summary file *)

StatsFailed == statsFetch \in Outcomes \ {"ok"}

\* C12: once the fetch of stats.json has failed, leaderboard init never
\* calls computeDetailedStats, renders no table, never reaches the position
\* where the event handlers are installed, and globalData.stats and
\* globalData.detailedStats stay null, also when every per-method file loaded.
C12_StatsFailureAbortsInit ==
    StatsFailed =>
        /\ calls = 0
        /\ methodTable = None
        /\ selectedModel = None
        /\ modelDatasetTable = None
        /\ pc # "ready"
        /\ globalData.stats = None
        /\ globalData.detailedStats = None

\* init returned after a failed summary fetch although all five method files loaded
C12_Witness ==
    /\ pc = "failed"
    /\ statsFetch = "network"
    /\ \A m \in MethodSet : methodFetch[m] = "ok"
    /\ loadAllDataPromise.state = "fulfilled"
    /\ KeySet(loadAllDataPromise.value[1]) = MethodSet

\* C13: when the summary file failed to load and init has finished, some
\* element of the page shows a "Failed to load" message, on the main page
\* and on the leaderboard page alike.
C13_StatsFailureVisible ==
    /\ (mainPc = "failed" /\ mainStatsFetch \in Outcomes \ {"ok"}) => failureShown # {}
    /\ (pc = "failed" /\ StatsFailed) => failureShown # {}

-----------------------------------------------------------------------------
(* Error handling: entries without Mean_Dice, models outside model_ranks *)

ListedModels == ModelKeys(globalData.stats[1].model_ranks)

\* the raw table with every model entry that has no Mean_Dice taken out
WithoutMissingDice(rawData) ==
    [i \in 1..Len(rawData) |->
        [key |-> rawData[i].key,
         val |-> [j \in 1..Len(rawData[i].val) |->
                    [key |-> rawData[i].val[j].key,
                     val |-> SelectSeq(rawData[i].val[j].val,
                                       LAMBDA e : HasMetric(e, "Mean_Dice"))]]]]

\* the pairs of category c in which model k has a Mean_Dice observation
PairsRanking(c, k) ==
    {p \in 1..Len(Pairs) :
        /\ getDatasetCategory(Pairs[p].dataset) = c
        /\ k \in DiceModels(Pairs[p].models)}

\* C15: computeDetailedStats completes on tables with entries that lack
\* Mean_Dice, and its three results are those of the same table with these
\* entries removed: such an entry gets no category rank, no method score and
\* no dataset rank for its pair, and the other models of the pair are ranked
\* as if it were not there.
C15_MissingDiceIsNoObservation ==
    pc = "ready" =>
        /\ globalData.detailedStats =
               Some(computeDetailedStats(WithoutMissingDice(globalData.rawData),
                                         globalData.stats[1]))
        /\ \A k \in ListedModels :
               /\ \A c \in CategorySet :
                      Len(ModelCategoryRanks[k][c]) = Cardinality(PairsRanking(c, k))
               /\ \A d \in DatasetNames(globalData.rawData) :
                      MethodsRanking(globalData.rawData, d, k) = {} =>
                          d \notin DOMAIN ModelDatasetRanks[k].datasets
        /\ \A k \in DOMAIN ModelMethodPerformance : \A x \in MethodSet :
               Len(ModelMethodPerformance[k].scores[x]) =
                   Len(MeansUnder(globalData.rawData, k, x))

\* kumar under frozen: m1 comes first without Mean_Dice, m2 has the lowest
\* mean and a third model has a mean; m1 gets nothing and m2 is ranked
C15_Witness ==
    /\ pc = "ready"
    /\ Len(Pairs) = 1
    /\ Pairs[1].dataset = "kumar"
    /\ Len(Pairs[1].models) = 3
    /\ Pairs[1].models[1].key = "m1"
    /\ ~HasMetric(Pairs[1].models[1], "Mean_Dice")
    /\ "m2" \in DiceModels(Pairs[1].models)
    /\ DiceOf(Pairs[1].models, "m2") = 0
    /\ ModelCategoryRanks["m1"].Nuclear = << >>
    /\ ModelCategoryRanks["m1"].NuclearAvg = <<999, 1>>
    /\ "kumar" \notin DOMAIN ModelDatasetRanks["m1"].datasets
    /\ "m1" \notin DOMAIN ModelMethodPerformance
    /\ Len(ModelCategoryRanks["m2"].Nuclear) = 1
    /\ "kumar" \in DOMAIN ModelDatasetRanks["m2"].datasets

\* the model keys that occur in some (method, dataset) pair of the raw data
RawModels ==
    UNION {{Pairs[p].models[i].key : i \in 1..Len(Pairs[p].models)} : p \in 1..Len(Pairs)}

\* C16: after init, a model of the raw data that model_ranks does not list
\* has no entry in modelCategoryRanks and modelDatasetRanks; a listed model
\* that occurs nowhere in the raw data has three empty category lists with
\* the average 999, an empty datasets map and no modelMethodPerformance
\* entry; the leaderboard table still has one row per listed model (all
\* dataset cells empty for such a model) and the method table was rendered
\* with rows for listed models that have a performance entry only.
C16_UnmatchedModelsIgnored ==
    pc = "ready" =>
        /\ \A k \in RawModels \ ListedModels :
               /\ k \notin DOMAIN ModelCategoryRanks
               /\ k \notin DOMAIN ModelDatasetRanks
        /\ \A k \in ListedModels \ RawModels :
               /\ k \in DOMAIN ModelCategoryRanks
               /\ \A c \in CategorySet :
                      /\ ModelCategoryRanks[k][c] = << >>
                      /\ CategoryAvgOf(ModelCategoryRanks[k], c) = <<999, 1>>
               /\ k \in DOMAIN ModelDatasetRanks
               /\ DOMAIN ModelDatasetRanks[k].datasets = {}
               /\ k \notin DOMAIN ModelMethodPerformance
        /\ tbody = Some(tableData)
        /\ Len(tableData) = Len(globalData.stats[1].model_ranks)
        /\ \A i \in 1..Len(tableData) :
               /\ tableData[i].model_key = globalData.stats[1].model_ranks[i].model_key
               /\ tableData[i].model_key \notin RawModels =>
                      \A d \in DOMAIN tableData[i].cells : tableData[i].cells[d] = None
        /\ methodTable # None
        /\ \A i \in 1..Len(methodTable[1]) :
               methodTable[1][i].model_key \in ListedModels \cap RawModels

\* m3 is ranked in a Nuclear pair but not listed, m4 is listed but in no
\* file, m2 is both and has a row in each table
C16_Witness ==
    /\ pc = "ready"
    /\ Len(Pairs) = 1
    /\ Pairs[1].dataset = "kumar"
    /\ "m3" \in DiceModels(Pairs[1].models)
    /\ "m2" \in DiceModels(Pairs[1].models)
    /\ "m3" \notin ListedModels
    /\ "m4" \in ListedModels \ RawModels
    /\ "m3" \in DOMAIN ModelMethodPerformance
    /\ Len(ModelCategoryRanks["m2"].Nuclear) = 1
    /\ \E i \in 1..Len(tableData) :
           /\ tableData[i].model_key = "m2"
           /\ tableData[i].cells["kumar"] # None
    /\ \E i \in 1..Len(methodTable[1]) : methodTable[1][i].model_key = "m2"

-----------------------------------------------------------------------------
(* Frame: the Raw Data Store *)

\* C14: globalData.rawData changes only in the step of init that follows the
\* load, where it becomes the value loadAllData returned; from then on no
\* step (a further computeDetailedStats call, a sort click, a search input,
\* a task-filter or method-filter click, a model-selector change) changes
\* it or anything nested in it.
C14_RawDataWrittenOnce ==
    [][ /\ globalData'.rawData # globalData.rawData =>
              /\ pc = "awaiting"
              /\ pc' = "ready"
              /\ globalData'.rawData = loadAllDataPromise.value[1]
        /\ pc = "ready" => globalData'.rawData = globalData.rawData ]_vars

\* every kind of handler has run on a page whose five files loaded, one of
\* them with an entry that has no Mean_Dice
C14_Witness ==
    /\ pc = "ready"
    /\ calls = 2
    /\ currentSort = [column |-> "GlaS", direction |-> "desc"]
    /\ searchInput = "M"
    /\ activeTask = "gland"
    /\ activeMethod = "frozen"
    /\ selectedModel = Some("m2")
    /\ Len(globalData.rawData) = 5
    /\ globalData.rawData = loadAllDataPromise.value[1]
    /\ \E p \in 1..Len(Pairs) :
           \E i \in 1..Len(Pairs[p].models) : ~HasMetric(Pairs[p].models[i], "Mean_Dice")

-----------------------------------------------------------------------------
(* Ties *)

PositionIn(scores, k) == CHOOSE i \in 1..Len(scores) : scores[i].model = k

\* the pairs of models (a, b) of one models object with equal Mean_Dice
\* means, a before b in the iteration order of the object
TiedInOrder(models) ==
    {ab \in DiceModels(models) \X DiceModels(models) :
        /\ DiceOf(models, ab[1]) = DiceOf(models, ab[2])
        /\ IndexOf(models, ab[1]) < IndexOf(models, ab[2])}

\* C17: of two models with equal Mean_Dice means in one (method, dataset)
\* pair, the one that comes first in the models object gets the smaller
\* rank in both rank steps, so tied models never share a rank; on a table of
\* one pair the stored category ranks and dataset ranks show that order.
C17_TieKeepsIterationOrder ==
    pc = "ready" =>
        \A p \in 1..Len(Pairs) :
            \A ab \in TiedInOrder(Pairs[p].models) :
                /\ PositionIn(RankScores(Pairs[p].models), ab[1])
                       < PositionIn(RankScores(Pairs[p].models), ab[2])
                /\ PositionIn(DatasetRankScores(Pairs[p].models), ab[1])
                       < PositionIn(DatasetRankScores(Pairs[p].models), ab[2])
                /\ (Len(Pairs) = 1 /\ ab[1] \in ListedModels /\ ab[2] \in ListedModels) =>
                       LET d == Pairs[p].dataset
                           c == getDatasetCategory(d)
                       IN  /\ FracLess(ModelDatasetRanks[ab[1]].datasets[d],
                                       ModelDatasetRanks[ab[2]].datasets[d])
                           /\ c # "Other" =>
                                  ModelCategoryRanks[ab[1]][c][1]
                                      < ModelCategoryRanks[ab[2]][c][1]

\* kumar under frozen: m2 comes before m1, both with the same mean, and a
\* third model scores higher; m2 is ranked 2 and m1 is ranked 3
C17_Witness ==
    /\ pc = "ready"
    /\ Len(Pairs) = 1
    /\ Pairs[1].dataset = "kumar"
    /\ <<"m2", "m1">> \in TiedInOrder(Pairs[1].models)
    /\ Cardinality(DiceModels(Pairs[1].models)) = 3
    /\ ModelCategoryRanks["m2"].Nuclear = <<2>>
    /\ ModelCategoryRanks["m1"].Nuclear = <<3>>
    /\ ModelDatasetRanks["m2"].datasets["kumar"] = <<2, 1>>
    /\ ModelDatasetRanks["m1"].datasets["kumar"] = <<3, 1>>

-----------------------------------------------------------------------------
(* Consistency of the two rank steps *)

\* the sum of the ranks behind the stored average of model k on dataset d
DatasetRankTotal(d, k) ==
    IF d \in DOMAIN ModelDatasetRanks[k].datasets
    THEN (ModelDatasetRanks[k].datasets[d][1]
             * Cardinality(MethodsRanking(globalData.rawData, d, k)))
         \div ModelDatasetRanks[k].datasets[d][2]
    ELSE 0

DatasetsOf(c) == {d \in DatasetNames(globalData.rawData) : getDatasetCategory(d) = c}

RECURSIVE SumOver(_, _)
SumOver(S, f) ==
    IF S = {} THEN 0
    ELSE LET x == CHOOSE y \in S : TRUE IN f[x] + SumOver(S \ {x}, f)

\* C18: in every (method, dataset) pair each listed model with a Mean_Dice
\* observation gets the same rank from the rank step of the category fold
\* and from the rank step of computeModelDatasetRanks, ties included; hence
\* the category ranks stored for a model add up to the ranks behind its
\* stored dataset averages over the datasets of that category.
C18_RankStepsAgree ==
    pc = "ready" =>
        /\ \A p \in 1..Len(Pairs) :
               \A k \in ListedModels \cap DiceModels(Pairs[p].models) :
                   PositionIn(RankScores(Pairs[p].models), k)
                       = PositionIn(DatasetRankScores(Pairs[p].models), k)
        /\ \A k \in ListedModels : \A c \in CategorySet :
               Sum(ModelCategoryRanks[k][c])
                   = SumOver(DatasetsOf(c),
                             [d \in DatasetsOf(c) |-> DatasetRankTotal(d, k)])

\* GlaS under two methods: m1 and m2 tie under the first and m2 wins under
\* the second, so m2 holds the ranks 2 and 1 in both structures
C18_Witness ==
    /\ pc = "ready"
    /\ Len(Pairs) = 2
    /\ Pairs[1].dataset = "GlaS"
    /\ Pairs[2].dataset = "GlaS"
    /\ <<"m1", "m2">> \in TiedInOrder(Pairs[1].models)
    /\ ModelCategoryRanks["m2"].Gland = <<2, 1>>
    /\ ModelDatasetRanks["m2"].datasets["GlaS"] = <<3, 2>>
    /\ ModelCategoryRanks["m1"].Gland = <<1, 2>>

-----------------------------------------------------------------------------
(* Contents of the category lists and of the datasets maps *)

\* model k's ranks in the pairs of category c where it has a Mean_Dice
\* observation, in the order of the pairs
ExpectedCategoryRanks(c, k) ==
    LET idx == SelectSeq([p \in 1..Len(Pairs) |-> p], LAMBDA p : p \in PairsRanking(c, k))
    IN  [i \in 1..Len(idx) |-> RankIn(Pairs[idx[i]].models, k)]

\* the pairs whose dataset is in no configured list and where k is observed
OtherPairs(k) ==
    {p \in 1..Len(Pairs) :
        /\ getDatasetCategory(Pairs[p].dataset) = "Other"
        /\ k \in DiceModels(Pairs[p].models)}

\* C19: after computeDetailedStats the list modelCategoryRanks[M][C] of a
\* listed model M is exactly M's rank in each (method, dataset) pair whose
\* dataset is classified C and where M has a Mean_Dice observation, one
\* rank per pair in pair order; the pairs of datasets classified 'Other'
\* add nothing to any list.
C19_CategoryListContents ==
    pc = "ready" =>
        \A k \in ListedModels :
            /\ \A c \in CategorySet :
                   ModelCategoryRanks[k][c] = ExpectedCategoryRanks(c, k)
            /\ Len(ModelCategoryRanks[k].Nuclear) + Len(ModelCategoryRanks[k].Gland)
                   + Len(ModelCategoryRanks[k].Tissue) + Cardinality(OtherPairs(k))
                   = Cardinality({p \in 1..Len(Pairs) : k \in DiceModels(Pairs[p].models)})

\* BCSS under one method and the unlisted Misc under another: m1 is
\* observed in both pairs and holds a single Tissue rank and nothing else
C19_Witness ==
    /\ pc = "ready"
    /\ Len(Pairs) = 2
    /\ Pairs[1].dataset = "BCSS"
    /\ Pairs[2].dataset = "Misc"
    /\ OtherPairs("m1") = {2}
    /\ Cardinality(DiceModels(Pairs[1].models)) = 2
    /\ ModelCategoryRanks["m1"].Tissue = <<2>>
    /\ ModelCategoryRanks["m1"].Nuclear = << >>
    /\ ModelCategoryRanks["m1"].Gland = << >>

\* the datasets for which model k has a Mean_Dice observation under some method
ObservedDatasets(k) ==
    {d \in DatasetNames(globalData.rawData) :
        MethodsRanking(globalData.rawData, d, k) # {}}

\* the largest number of models in one pair of the raw data
LargestPair ==
    IF Len(Pairs) = 0 THEN 0
    ELSE CHOOSE n \in {Len(Pairs[p].models) : p \in 1..Len(Pairs)} :
             \A p \in 1..Len(Pairs) : Len(Pairs[p].models) <= n

\* C20: modelDatasetRanks has exactly the listed models, and the datasets
\* map of a listed model M has the key D exactly when M has a Mean_Dice
\* observation for D under at least one loaded method; every stored value
\* is a rank average between 1 and the number of models of a pair, never a
\* placeholder such as 999, null or 0.
C20_DatasetKeysAreObservations ==
    pc = "ready" =>
        /\ DOMAIN ModelDatasetRanks = ListedModels
        /\ \A k \in ListedModels :
               /\ DOMAIN ModelDatasetRanks[k].datasets = ObservedDatasets(k)
               /\ \A d \in DOMAIN ModelDatasetRanks[k].datasets :
                      LET v == ModelDatasetRanks[k].datasets[d]
                      IN  /\ Len(v) = 2
                          /\ v[2] > 0
                          /\ v[1] >= v[2]
                          /\ v[1] <= v[2] * LargestPair

\* one method with GlaS and CRAG: m1 is observed for GlaS only, m2 for CRAG
\* only, m3 (not listed) for both, m4 for none
C20_Witness ==
    /\ pc = "ready"
    /\ DatasetNames(globalData.rawData) = {"GlaS", "CRAG"}
    /\ DOMAIN ModelDatasetRanks["m1"].datasets = {"GlaS"}
    /\ DOMAIN ModelDatasetRanks["m2"].datasets = {"CRAG"}
    /\ DOMAIN ModelDatasetRanks["m4"].datasets = {}
    /\ ObservedDatasets("m3") = {"GlaS", "CRAG"}
    /\ "m3" \notin DOMAIN ModelDatasetRanks

-----------------------------------------------------------------------------
(* The category fold, step by step *)

IsPrefix(s, t) == Len(s) <= Len(t) /\ SubSeq(t, 1, Len(s)) = s

\* C21: while the category fold runs, one (method, dataset) pair per step,
\* every rank list of every model is a prefix of what it is after the step
\* (elements are only appended); from the step that computes the averages
\* on, no rank list changes; and the lists the fold ends with are the ones
\* computeDetailedStats returns.
C21_ListsOnlyGrow ==
    [][ /\ (foldPc = "folding" /\ foldPc' \in {"folding", "averaged"}) =>
              /\ DOMAIN foldAcc' = DOMAIN foldAcc
              /\ \A k \in DOMAIN foldAcc : \A c \in CategorySet :
                     IsPrefix(foldAcc[k][c], foldAcc'[k][c])
        /\ (foldPc' \in {"averaged", "done"} /\ foldPc # "idle") =>
              \A k \in DOMAIN foldAcc : \A c \in CategorySet :
                  foldAcc'[k][c] = foldAcc[k][c]
        /\ foldPc' = "done" =>
              foldAcc' = globalData'.detailedStats[1].modelCategoryRanks ]_vars

\* the fold has passed two Gland pairs, a listed model got a rank from each,
\* and the averages have been computed
C21_Witness ==
    /\ foldPc = "done"
    /\ foldIndex = 3
    /\ \E k \in DOMAIN foldAcc :
           /\ foldAcc[k].Gland = <<2, 1>>
           /\ foldAcc[k].GlandAvg = <<3, 2>>

-----------------------------------------------------------------------------
(* Frame: the handlers of the leaderboard page *)

\* C22: once the page is ready, a step that is not a further
\* computeDetailedStats call (a sort click, a search input, a task-filter or
\* method-filter click, a model-selector change) leaves tableData,
\* globalData.stats and globalData.detailedStats as they were; what a sort
\* click or a search input shows is a new array.
C22_HandlersKeepTableData ==
    [][ (pc = "ready" /\ calls' = calls) =>
            /\ tableData' = tableData
            /\ globalData'.stats = globalData.stats
            /\ globalData'.detailedStats = globalData.detailedStats ]_vars

\* a search, a task filter and a model selection have happened and the last
\* sort click shows the rows in another order than tableData has
C22_Witness ==
    /\ pc = "ready"
    /\ currentSort = [column |-> "model", direction |-> "desc"]
    /\ tbody # None
    /\ Len(tbody[1]) = Len(tableData)
    /\ tbody[1] # tableData
    /\ searchInput = "M"
    /\ activeTask = "gland"
    /\ selectedModel = Some("m2")

-----------------------------------------------------------------------------
(* The tab variant: repeated calls of initPerformanceTab *)

\* C23: a call of initPerformanceTab issued when perfState.isLoaded is true
\* and processedData is set issues no fetch, does not call processData or
\* initFilters, calls renderView once and returns without an await; perfState
\* (rawData, processedData, isLoaded) is the same after it.
C23_LaterCallOnlyRenders ==
    [][ (perfState.isLoaded /\ perfState.processedData # None
            /\ Len(tabCalls') > Len(tabCalls)) =>
            /\ fetchCount' = fetchCount
            /\ processCount' = processCount
            /\ listenerCount' = listenerCount
            /\ renderCount' = renderCount + 1
            /\ perfState' = perfState
            /\ tabCalls'[Len(tabCalls')].pc = "returned" ]_vars

\* the first call loaded the data and the second call returned after
\* rendering
C23_Witness ==
    /\ Len(tabCalls) = 2
    /\ tabCalls[1].pc = "ready"
    /\ tabCalls[2].pc = "returned"
    /\ perfState.isLoaded
    /\ renderCount = 2
    /\ processCount = 1

\* C26: whatever the interleaving of the calls of initPerformanceTab, each
\* method file is fetched at most once, processData is called at most once
\* and each filter element gets at most one 'change' listener.
C26_LoadHappensOnce ==
    /\ \A m \in MethodSet : fetchCount[m] <= 1
    /\ processCount <= 1
    /\ listenerCount <= 1

-----------------------------------------------------------------------------
(* The sort state of the leaderboard table *)

\* the number of equal elements at the end of a non-empty sequence
RECURSIVE TrailingRun(_)
TrailingRun(h) ==
    IF Len(h) = 1 THEN 1
    ELSE IF h[Len(h) - 1] = h[Len(h)] THEN 1 + TrailingRun(SubSeq(h, 1, Len(h) - 1))
    ELSE 1

\* the clicks so far, after the initial state counted as one click on rank
ClickHistory == <<"rank">> \o clicks

\* C24: a click on the column currentSort holds flips the direction and keeps
\* the column, a click on another column makes currentSort (column, asc);
\* and after any sequence of clicks currentSort.column is the column clicked
\* last and the direction is desc exactly when the clicks on that column at
\* the end of the history, the initial (rank, asc) counted as a click on rank,
\* are even in number.
C24_SortStateFollowsClicks ==
    /\ [](/\ currentSort.column = ClickHistory[Len(ClickHistory)]
          /\ currentSort.direction \in {"asc", "desc"}
          /\ currentSort.direction = "desc" <=> TrailingRun(ClickHistory) % 2 = 0)
    /\ [][ Len(clicks') > Len(clicks) =>
             LET column == clicks'[Len(clicks')]
             IN  IF column = currentSort.column
                 THEN /\ currentSort'.column = column
                      /\ currentSort'.direction # currentSort.direction
                 ELSE currentSort' = [column |-> column, direction |-> "asc"] ]_vars

\* three clicks on the model column after the initial state: the direction
\* is back to asc
C24_Witness ==
    /\ clicks = <<"model", "model", "model">>
    /\ currentSort = [column |-> "model", direction |-> "asc"]
    /\ tbody # None

\* the rows of tableData whose lower-cased name or key contains the query
MatchingRows(query) ==
    IF query = "" THEN tableData ELSE FilterRows(tableData, query)

\* C25: whatever search inputs and sort clicks came before, the table body
\* shows exactly the rows of tableData whose name or key contains the
\* current query, in the order of the current sort column and direction.
C25_BodyIsFilteredAndSorted ==
    pc = "ready" =>
        LET matching == MatchingRows(Trim(ToLowerCase(searchInput)))
        IN  tbody = Some(SortRows(matching, Len(matching), currentSort.column,
                                  HeaderType(currentSort.column),
                                  currentSort.direction))

\* row[column] is null or undefined
HasNoValue(row, column) ==
    /\ column \notin {"rank", "model", "overall"}
    /\ column \in DOMAIN row.cells => row.cells[column] = None

\* C30: after a sort click on a numeric column, no row without a value in
\* that column stands before a row with a value when the direction is asc,
\* and no row with a value stands before a row without one when the
\* direction is desc.
C30_NullSortsAsInfinity ==
    [][ (currentSort' # currentSort /\ currentSort'.column # "model") =>
            LET column == currentSort'.column
                shown == tbody'[1]
            IN  /\ Len(shown) = Len(tableData)
                /\ \A i, j \in 1..Len(shown) :
                     i < j =>
                       IF currentSort'.direction = "asc"
                       THEN ~(HasNoValue(shown[i], column) /\ ~HasNoValue(shown[j], column))
                       ELSE ~(~HasNoValue(shown[i], column) /\ HasNoValue(shown[j], column))
      ]_vars

\* a descending sort on a dataset column shows a row without a rank first
\* and a row with a rank after it
C30_Witness ==
    /\ pc = "ready"
    /\ currentSort.direction = "desc"
    /\ currentSort.column \notin {"rank", "model", "overall"}
    /\ tbody # None
    /\ Len(tbody[1]) >= 2
    /\ tbody[1] # tableData
    /\ HasNoValue(tbody[1][1], currentSort.column)
    /\ ~HasNoValue(tbody[1][Len(tbody[1])], currentSort.column)
    /\ searchInput = ""

-----------------------------------------------------------------------------
(* The filters of the performance tab *)

\* the dataset keys whose category and whose name or key match the filters
MatchingDatasets ==
    {perfData.processedData[i].key : i \in
        {j \in 1..Len(perfData.processedData) :
            /\ currentFilters.category \in {"all", perfData.processedData[j].val.category}
            /\ \/ currentFilters.search = ""
               \/ StringIncludes(
                      ToLowerCase(getDatasetDisplayName(perfData.processedData[j].key)),
                      ToLowerCase(currentFilters.search))
               \/ StringIncludes(ToLowerCase(perfData.processedData[j].key),
                                 ToLowerCase(currentFilters.search))}}

\* C27: after any sequence of search, category-filter and metric-filter
\* events the dataset cards shown are exactly the datasets matching the
\* category and search filters, and the metric cards visible in each of
\* them are exactly those matching currentFilters.metric (all of them when
\* it is 'all').
C27_CardsMatchFilters ==
    perfPc = "ready" =>
        /\ {perfCards[1][i].dataset : i \in 1..Len(perfCards[1])} = MatchingDatasets
        /\ \A i \in 1..Len(perfCards[1]) :
               perfCards[1][i].shown =
                   IF currentFilters.metric = "all" THEN MetricKeySet
                   ELSE {currentFilters.metric}

-----------------------------------------------------------------------------
(* The two dataset classifiers *)

\* C28: when the classifier of leaderboard.js and the classifier of
\* performance.js have been called with the same dataset name, they have
\* returned the same category.
C28_ClassifiersAgree ==
    (classified # None /\ perfClassified # None
        /\ classified[1][1] = perfClassified[1][1]) =>
        classified[1][2] = perfClassified[1][2]

-----------------------------------------------------------------------------
(* The two computeDetailedStats *)

\* C29: for the rawData and stats of the page, the computeDetailedStats of
\* the earlier variant returns the same modelCategoryRanks and the same
\* modelMethodPerformance as the one of leaderboard.js, whose result has
\* exactly one more field, modelDatasetRanks.
C29_VariantsAgree ==
    (pc = "ready" /\ variantDetailedStats # None) =>
        LET current == globalData.detailedStats[1]
            earlier == variantDetailedStats[1]
        IN  /\ earlier.modelCategoryRanks = current.modelCategoryRanks
            /\ earlier.modelMethodPerformance = current.modelMethodPerformance
            /\ DOMAIN current = DOMAIN earlier \cup {"modelDatasetRanks"}
            /\ "modelDatasetRanks" \notin DOMAIN earlier

\* both functions ran on a table where a listed model has two Gland ranks
\* and a model that model_ranks does not list has a Mean_Dice
C29_Witness ==
    /\ pc = "ready"
    /\ variantDetailedStats # None
    /\ \E k \in DOMAIN variantDetailedStats[1].modelCategoryRanks :
           Len(variantDetailedStats[1].modelCategoryRanks[k].Gland) = 2
    /\ \E k \in DOMAIN variantDetailedStats[1].modelMethodPerformance :
           k \notin DOMAIN variantDetailedStats[1].modelCategoryRanks

====
